---- MODULE Spec2Model ----
(***************************************************************************)
(* A model of the experiment scheduler of floatcsep / fecsep / gefe.       *)
(*                                                                         *)
(*   - src/fecsep/experiment.py : Experiment.prepare_paths, prepare_tasks, *)
(*     prepare_subcatalog, get_model and run (specification Spec);         *)
(*   - src/gefe/models.py : Experiment.get_forecast, Model.create_forecast *)
(*     and set_test_date (specification SpecGefe).                         *)
(*                                                                         *)
(* Names of models and tests are strings, and file names are built by the  *)
(* same concatenation the f-strings of the code perform.  Models and tests *)
(* are objects: a task refers to them by their position in self.models     *)
(* and self.tests, and to their names through that position.              *)
(***************************************************************************)
EXTENDS Integers, Sequences, FiniteSets, TLC

(***************************************************************************)
(* Bounds of the model.                                                    *)
(***************************************************************************)
MaxWindows == 2
MaxModels == 2
MaxTests == 2
MaxRuns == 1
MaxCalls == 3
MaxDate == 2

ModelNames == {"B", "A_B"}
TestNames == {"T", "T_A"}

VARIABLES
    timewindows,   \* self.timewindows: sequence of <<start, end>>
    models,        \* self.models: sequence of model names (object = position)
    tests,         \* self.tests: sequence of [name, type, ref_model]
    _paths,        \* self._paths
    _exists,       \* self._exists
    dirs,          \* directories of the run folder present on disk
    disk,          \* files of the run folder: path -> what wrote it
    forecasts,     \* model.forecasts of every model: set of <<model, tstring>>
    tasks,         \* self.tasks
    pc,            \* where the caller of run() is
    cursor,        \* position of the for loop of run() in self.tasks
    executing,     \* the tasks whose run() has been entered and not left
    executed,      \* the tasks that returned, in the order they returned
    raised,        \* the tasks whose run() raised in this call of run()
    runs,          \* number of calls of run() so far
    task_runs,     \* how often run() of each Task of self.tasks was called
    g_start_date,  \* gefe Experiment.start_date
    g_end_date,    \* gefe Experiment.end_date
    g_test_date,   \* gefe Experiment.test_date
    g_forecasts,   \* gefe Model.forecasts: model name -> set of keys
    g_calls,       \* gefe: how often Model.func was invoked, per model
    results,       \* ExperimentRegistry.results
    test_catalogs, \* ExperimentRegistry.test_catalogs
    figures,       \* ExperimentRegistry.figures
    built,         \* the arguments of the last call of build_tree
    lookup,        \* the last call, when it was a lookup, and its outcome
    exp_args,      \* the arguments an Experiment was constructed with
    exp_dict,      \* self.__dict__ of that Experiment
    to_dict_out,   \* what the last call of to_dict returned
    catalog,       \* the events of the experiment's catalog, by origin time
    subcatalogs,   \* the catalog files written: path -> events
    cli,           \* the command in progress: its function, show and calls
    plots,         \* the last plot_catalogs: its inputs, figures and error
    g_cat          \* gefe Experiment: self.catalog, the catalog file, reads

schedVars == <<timewindows, models, tests, _paths, _exists, dirs, disk,
               forecasts, tasks, pc, cursor, executing, executed, raised,
               runs, task_runs>>
gefeVars == <<g_start_date, g_end_date, g_test_date, g_forecasts, g_calls>>
regVars == <<results, test_catalogs, figures, built, lookup>>
dictVars == <<exp_args, exp_dict, to_dict_out>>
subcatVars == <<catalog, subcatalogs>>
lateVars == <<subcatVars, cli, plots, g_cat>>
vars == <<timewindows, models, tests, _paths, _exists, dirs, disk,
          forecasts, tasks, pc, cursor, executing, executed, raised, runs,
          task_runs,
          g_start_date, g_end_date, g_test_date, g_forecasts, g_calls,
          results, test_catalogs, figures, built, lookup,
          exp_args, exp_dict, to_dict_out,
          catalog, subcatalogs, cli, plots, g_cat>>

(***************************************************************************)
(* Helpers on sequences and strings.                                       *)
(***************************************************************************)
RECURSIVE Flatten(_)
Flatten(ss) == IF ss = <<>> THEN <<>> ELSE Head(ss) \o Flatten(Tail(ss))

\* Python's `a in b` on two strings
IsSubstring(a, b) ==
    \E i \in 1..(Len(b) - Len(a) + 1) : SubSeq(b, i, i + Len(a) - 1) = a

\* None, where the code holds a name or an object position
None == ""
NoObject == 0

(***************************************************************************)
(* Time windows and their canonical string.                                *)
(***************************************************************************)
\* The windows of a time configuration: `n' intervals of length 1 from 0,
\* each starting where the last ended
timewindows_ti(n) == [i \in 1..n |-> <<i - 1, i>>]

timewindow2str(tw) == ToString(tw[1]) \o "_" \o ToString(tw[2])

\* timewindow2str of a list of windows
timewindows2str(tws) == [i \in 1..Len(tws) |-> timewindow2str(tws[i])]

(***************************************************************************)
(* Evaluation types: a type is the set of its tags, and the code asks      *)
(* whether a tag is `in' it.                                               *)
(***************************************************************************)
TestTypes == {{a, b} : a \in {"Discrete", "Sequential"},
                       b \in {"Absolute", "Comparative", "Batch"}}

\* The evaluations a configuration can hold: only a Comparative one names
\* a reference model
Evaluations ==
    {[name |-> n, type |-> ty, ref_model |-> r] :
        n \in TestNames, ty \in TestTypes, r \in ModelNames \cup {None}}

WellFormedTest(t) ==
    ("Comparative" \in t.type) <=> (t.ref_model # None)

SeqsUpTo(S, n) == UNION {[1..k -> S] : k \in 0..n}

(***************************************************************************)
(* Experiment.prepare_paths: the directory tree, the existence flags and   *)
(* the target paths of a run.  A path is <<window, folder, file>> below    *)
(* the run folder.                                                         *)
(***************************************************************************)
subfolders == {"catalog", "evaluations", "figures", "forecasts"}

windows == timewindows2str(timewindows)
WindowSet == {windows[i] : i \in 1..Len(windows)}
ModelNameSet == {models[j] : j \in 1..Len(models)}
TestNameSet == {tests[k].name : k \in 1..Len(tests)}

\* dirtree: the folders of every window
dirtree == {<<win, folder>> : win \in WindowSet, folder \in subfolders}

\* os.listdir of a folder of a window
listdir(win, folder) ==
    {p[3] : p \in {q \in DOMAIN disk : q[1] = win /\ q[2] = folder}}

\* faulty variant of ResultFileName: the test is left out of the file name
ResultFileName_notest(test, model) == model \o ".json"

\* f'{test}_{model}.json'
ResultFileName(test, model) == test \o "_" \o model \o ".json"

\* os.path.join(dirtree[win]['evaluations'], f'{test}_{model}.json')
ResultPath(win, test, model) ==
    <<win, "evaluations", ResultFileName(test, model)>>

\* os.path.join(dirtree[win]['catalog'], 'catalog.json')
CatalogPath(win) == <<win, "catalog", "catalog.json">>

\* exists: the flags read from the listing of the folders
ExistsFlags ==
    [win \in WindowSet |->
        [forecasts |-> FALSE,
         catalog |-> listdir(win, "catalog") # {},
         evaluations |->
            [test \in TestNameSet |->
                [model \in ModelNameSet |->
                    \E file \in listdir(win, "evaluations") :
                        IsSubstring(ResultFileName(test, model), file)]]]]

\* target_paths
TargetPaths ==
    [win \in WindowSet |->
        [catalog |-> CatalogPath(win),
         evaluations |->
            [test \in TestNameSet |->
                [model \in ModelNameSet |-> ResultPath(win, test, model)]],
         figures |-> [test \in TestNameSet |-> <<win, "figures", test>>],
         models |->
            [forecasts |-> [model \in ModelNameSet |-> model],
             figures |->
                [model \in ModelNameSet |-> <<win, "figures", model>>]]]]

prepare_paths ==
    /\ pc # "running"
    /\ dirs' = dirs \cup dirtree
    /\ _exists' = ExistsFlags
    /\ _paths' = TargetPaths
    /\ UNCHANGED <<timewindows, models, tests, disk, forecasts, tasks, pc,
                   cursor, executing, executed, raised, runs>>
    /\ UNCHANGED task_runs
    /\ UNCHANGED gefeVars
    /\ UNCHANGED regVars
    /\ UNCHANGED dictVars
    /\ UNCHANGED lateVars

(***************************************************************************)
(* Tasks.  Task(instance, method, **kwargs): `instance' is the position of *)
(* the model or test the method is called on (NoObject: the experiment     *)
(* itself), `kwargs' the keywords given.  timewindow and catalog are       *)
(* sequences; `listed' tells whether the code passed a list (a Sequential  *)
(* test) or the single element (a Discrete test).  ref_model holds the     *)
(* positions of the reference models, NoObject where get_model gave None.  *)
(***************************************************************************)
CatalogTask(time_str) ==
    [method |-> "prepare_subcatalog", instance |-> NoObject,
     tstring |-> time_str, timewindow |-> <<>>, catalog |-> <<>>,
     listed |-> FALSE, model |-> NoObject, ref_model |-> <<>>,
     path |-> <<>>, kwargs |-> {"tstring"}]

ForecastTask(j, time_str) ==
    [method |-> "create_forecast", instance |-> j,
     tstring |-> time_str, timewindow |-> <<>>, catalog |-> <<>>,
     listed |-> FALSE, model |-> NoObject, ref_model |-> <<>>,
     path |-> <<>>, kwargs |-> {"tstring"}]

ComputeTask(k, tws, cats, aslist, j, refs, withref, p) ==
    [method |-> "compute", instance |-> k,
     tstring |-> None, timewindow |-> tws, catalog |-> cats,
     listed |-> aslist, model |-> j, ref_model |-> refs,
     path |-> p,
     kwargs |-> {"timewindow", "catalog", "model", "path"}
                  \cup (IF withref THEN {"ref_model"} ELSE {})]

\* Experiment.get_model: the first model of that name, or None
get_model(name) ==
    IF \E j \in 1..Len(models) : models[j] = name
    THEN CHOOSE j \in 1..Len(models) :
            /\ models[j] = name
            /\ \A i \in 1..(j - 1) : models[i] # name
    ELSE NoObject

IsDiscreteAbsolute(t) == "Discrete" \in t.type /\ "Absolute" \in t.type
IsDiscreteComparative(t) == "Discrete" \in t.type /\ "Comparative" \in t.type
IsSequential(t) == "Sequential" \in t.type
IsAbsolute(t) == "Absolute" \in t.type
IsComparative(t) == "Comparative" \in t.type
IsDiscreteBatch(t) == "Discrete" \in t.type /\ "Batch" \in t.type

\* self._paths[time_str]['evaluations'][test_k.name][model_j.name]
EvalPath(time_str, k, j) ==
    _paths[time_str].evaluations[tests[k].name][models[j]]

(***************************************************************************)
(* Experiment.prepare_tasks                                                *)
(***************************************************************************)
\* faulty variant of DiscreteAbsoluteTasks: a test whose result exists is
\* not scheduled
DiscreteAbsoluteTasks_unlessexists(i, j) ==
    Flatten([k \in 1..Len(tests) |->
        IF IsDiscreteAbsolute(tests[k])
            /\ ~_exists[windows[i]].evaluations[tests[k].name][models[j]]
        THEN <<ComputeTask(k, <<windows[i]>>, <<_paths[windows[i]].catalog>>,
                           FALSE, j, <<>>, FALSE, EvalPath(windows[i], k, j))>>
        ELSE <<>>])

\* faulty variant of DiscreteAbsoluteTasks: the last test is not visited
DiscreteAbsoluteTasks_skiplast(i, j) ==
    Flatten([k \in 1..(Len(tests) - 1) |->
        IF IsDiscreteAbsolute(tests[k])
        THEN <<ComputeTask(k, <<windows[i]>>, <<_paths[windows[i]].catalog>>,
                           FALSE, j, <<>>, FALSE, EvalPath(windows[i], k, j))>>
        ELSE <<>>])

\* the Discrete-Absolute tests of model j in window i (lines 510-521)
DiscreteAbsoluteTasks(i, j) ==
    Flatten([k \in 1..Len(tests) |->
        IF IsDiscreteAbsolute(tests[k])
        THEN <<ComputeTask(k, <<windows[i]>>, <<_paths[windows[i]].catalog>>,
                           FALSE, j, <<>>, FALSE, EvalPath(windows[i], k, j))>>
        ELSE <<>>])

\* the forecast of model j in window i, then its tests (lines 505-521)
ModelBlock(i, j) ==
    <<ForecastTask(j, windows[i])>> \o DiscreteAbsoluteTasks(i, j)

\* the Discrete-Comparative tests of window i (lines 523-537)
ComparativeTasks(i) ==
    Flatten([k \in 1..Len(tests) |->
        IF IsDiscreteComparative(tests[k])
        THEN [j \in 1..Len(models) |->
                ComputeTask(k, <<windows[i]>>, <<_paths[windows[i]].catalog>>,
                            FALSE, j, <<get_model(tests[k].ref_model)>>, TRUE,
                            EvalPath(windows[i], k, j))]
        ELSE <<>>])

\* faulty variant of WindowBlock: the forecasts of all models of the window
\* are built before the tests of any of them
WindowBlock_forecastsfirst(i) ==
    <<CatalogTask(windows[i])>>
    \o [j \in 1..Len(models) |-> ForecastTask(j, windows[i])]
    \o Flatten([j \in 1..Len(models) |-> DiscreteAbsoluteTasks(i, j)])
    \o ComparativeTasks(i)

\* faulty variant of WindowBlock: the comparative tests of the window are
\* built before the forecasts of its models
WindowBlock_comparativefirst(i) ==
    <<CatalogTask(windows[i])>>
    \o ComparativeTasks(i)
    \o Flatten([j \in 1..Len(models) |-> ModelBlock(i, j)])

\* the tasks of window i (lines 499-537)
WindowBlock(i) ==
    <<CatalogTask(windows[i])>>
    \o Flatten([j \in 1..Len(models) |-> ModelBlock(i, j)])
    \o ComparativeTasks(i)

\* [self._paths[i]['catalog'] for i in timestrs]
AllCatalogs == [i \in 1..Len(windows) |-> _paths[windows[i]].catalog]

\* faulty variant of SequentialResultWindow: timestrs[0]
SequentialResultWindow_first == windows[1]

\* the window whose folder takes the result of a Sequential test (timestrs[-1])
SequentialResultWindow == windows[Len(windows)]

\* the tasks of Sequential test k (lines 539-568)
SequentialTasks(k) ==
    IF IsAbsolute(tests[k])
    THEN [j \in 1..Len(models) |->
            ComputeTask(k, windows, AllCatalogs, TRUE, j, <<>>, FALSE,
                        EvalPath(SequentialResultWindow, k, j))]
    ELSE IF IsComparative(tests[k])
    THEN [j \in 1..Len(models) |->
            ComputeTask(k, windows, AllCatalogs, TRUE, j,
                        <<get_model(tests[k].ref_model)>>, TRUE,
                        EvalPath(SequentialResultWindow, k, j))]
    ELSE <<>>

\* faulty variant of BatchTasks: the test is bound to the first window
BatchTasks_firstwindow(k) ==
    [j \in 1..Len(models) |->
        ComputeTask(k, <<windows[1]>>, <<_paths[windows[1]].catalog>>,
                    FALSE, j, [m \in 1..Len(models) |-> m], TRUE,
                    EvalPath(windows[1], k, j))]

\* the tasks of Discrete-Batch test k (lines 569-582)
BatchTasks(k) ==
    [j \in 1..Len(models) |->
        ComputeTask(k, <<windows[Len(windows)]>>,
                    <<_paths[windows[Len(windows)]].catalog>>, FALSE, j,
                    [m \in 1..Len(models) |-> m], TRUE,
                    EvalPath(windows[Len(windows)], k, j))]

\* the tasks built after all windows (lines 538-582)
SequentialBatchTasks ==
    Flatten([k \in 1..Len(tests) |->
        IF IsSequential(tests[k]) THEN SequentialTasks(k)
        ELSE IF IsDiscreteBatch(tests[k]) THEN BatchTasks(k)
        ELSE <<>>])

\* faulty variant of TaskList: the phases of the former prepare_tasks
\* (lines 376-482), all catalogs, then all forecasts, then the tests
TaskList_phased ==
    [i \in 1..Len(windows) |-> CatalogTask(windows[i])]
    \o Flatten([i \in 1..Len(windows) |->
            [j \in 1..Len(models) |-> ForecastTask(j, windows[i])]])
    \o Flatten([i \in 1..Len(windows) |->
            Flatten([j \in 1..Len(models) |-> DiscreteAbsoluteTasks(i, j)])])
    \o Flatten([i \in 1..Len(windows) |-> ComparativeTasks(i)])
    \o SequentialBatchTasks

\* the list prepare_tasks assigns to self.tasks (lines 497-584)
TaskList ==
    Flatten([i \in 1..Len(windows) |-> WindowBlock(i)]) \o SequentialBatchTasks

\* whether building the list reads self._paths at all, and whether every
\* key it reads is there (else the code raises KeyError before line 584)
EmitsTasks(t) ==
    \/ IsDiscreteAbsolute(t) \/ IsDiscreteComparative(t)
    \/ (IsSequential(t) /\ (IsAbsolute(t) \/ IsComparative(t)))
    \/ IsDiscreteBatch(t)

ReadsPaths ==
    /\ Len(models) >= 1
    /\ \E k \in 1..Len(tests) : EmitsTasks(tests[k])

PathsResolve ==
    /\ WindowSet \subseteq DOMAIN _paths
    /\ \A win \in WindowSet :
        /\ TestNameSet \subseteq DOMAIN _paths[win].evaluations
        /\ \A t \in TestNameSet :
              ModelNameSet \subseteq DOMAIN _paths[win].evaluations[t]

prepare_tasks ==
    /\ pc # "running"
    /\ IF ReadsPaths /\ ~PathsResolve
       THEN UNCHANGED <<tasks, pc, cursor, executed, raised, task_runs>>
       ELSE /\ tasks' = TaskList
            /\ pc' = "idle"
            /\ cursor' = 1
            /\ executed' = <<>>
            /\ raised' = {}
            /\ task_runs' = [n \in 1..Len(TaskList) |-> 0]
    /\ UNCHANGED <<timewindows, models, tests, _paths, _exists, dirs, disk,
                   forecasts, executing, runs>>
    /\ UNCHANGED gefeVars
    /\ UNCHANGED regVars
    /\ UNCHANGED dictVars
    /\ UNCHANGED lateVars

(***************************************************************************)
(* What running a task does.  Task.run calls the method of the instance    *)
(* with the keywords of the task.                                          *)
(***************************************************************************)
\* what a file holds: the task that wrote it, in which call of run(), and
\* whether the write came to its end
Written(n) == [task |-> n, run |-> runs, complete |-> TRUE]
Partial(n) == [task |-> n, run |-> runs, complete |-> FALSE]

WriteFile(p, content) ==
    [q \in DOMAIN disk \cup {p} |-> IF q = p THEN content ELSE disk[q]]

\* Experiment.prepare_subcatalog(tstring): the filtered catalog is written
\* to self._paths[tstring]['catalog']; KeyError when the path is not there
prepare_subcatalog_ok(n) == tasks[n].tstring \in DOMAIN _paths

prepare_subcatalog(n) ==
    /\ disk' = WriteFile(_paths[tasks[n].tstring].catalog, Written(n))
    /\ UNCHANGED forecasts

\* Model.create_forecast(tstring): the forecast of the window is kept in
\* model.forecasts
create_forecast(n) ==
    /\ forecasts' = forecasts \cup {<<tasks[n].instance, tasks[n].tstring>>}
    /\ UNCHANGED disk

\* Evaluation.compute(...): the result is written as JSON to `path'
compute(n) ==
    /\ disk' = WriteFile(tasks[n].path, Written(n))
    /\ UNCHANGED forecasts

TaskCanReturn(n) ==
    tasks[n].method = "prepare_subcatalog" => prepare_subcatalog_ok(n)

TaskEffect(n) ==
    IF tasks[n].method = "prepare_subcatalog" THEN prepare_subcatalog(n)
    ELSE IF tasks[n].method = "create_forecast" THEN create_forecast(n)
    ELSE compute(n)

(***************************************************************************)
(* Experiment.run: for task in self.tasks: task.run()                      *)
(***************************************************************************)
\* run() is called
run_call_within(limit) ==
    /\ pc # "running"
    /\ runs < limit
    /\ pc' = "running"
    /\ cursor' = 1
    /\ executed' = <<>>
    /\ raised' = {}
    /\ runs' = runs + 1
    /\ UNCHANGED <<timewindows, models, tests, _paths, _exists, dirs, disk,
                   forecasts, tasks, executing>>
    /\ UNCHANGED task_runs
    /\ UNCHANGED gefeVars
    /\ UNCHANGED regVars
    /\ UNCHANGED dictVars
    /\ UNCHANGED lateVars

run_call == run_call_within(MaxRuns)

\* the loop may enter the task at the cursor
LoopCanEnter == executing = {} /\ cursor <= Len(tasks)

\* the loop calls task.run() of the task at the cursor
task_start ==
    /\ pc = "running"
    /\ LoopCanEnter
    /\ executing' = executing \cup {cursor}
    /\ task_runs' = [task_runs EXCEPT ![cursor] = @ + 1]
    /\ UNCHANGED <<timewindows, models, tests, _paths, _exists, dirs, disk,
                   forecasts, tasks, pc, cursor, executed, raised, runs>>
    /\ UNCHANGED gefeVars
    /\ UNCHANGED regVars
    /\ UNCHANGED dictVars
    /\ UNCHANGED lateVars

\* faulty variant of NextCursor: the loop steps over a task
NextCursor_skip(n) == n + 2

\* where the loop goes on after task n returned
NextCursor(n) == n + 1

\* task.run() returns: the loop moves to the next task
task_return ==
    /\ pc = "running"
    /\ \E n \in executing :
        /\ TaskCanReturn(n)
        /\ TaskEffect(n)
        /\ executing' = executing \ {n}
        /\ executed' = Append(executed, n)
        /\ cursor' = NextCursor(n)
    /\ UNCHANGED <<timewindows, models, tests, _paths, _exists, dirs,
                   tasks, pc, raised, runs>>
    /\ UNCHANGED task_runs
    /\ UNCHANGED gefeVars
    /\ UNCHANGED regVars
    /\ UNCHANGED dictVars
    /\ UNCHANGED lateVars

\* faulty variant of AfterRaise: the exception is caught and the loop goes on
AfterRaise_continue == "running"

\* how run() goes on when task.run() raised: nothing catches the exception,
\* so run() is left with it
AfterRaise == "raised"

\* what a task that raises leaves on disk: nothing when a key is missing or
\* the catalog, the forecast function or the test function fails; a part of
\* its file when prepare_subcatalog fails in write_json (line 374)
RaiseLeaves(n) ==
    \/ UNCHANGED disk
    \/ /\ tasks[n].method = "prepare_subcatalog"
       /\ prepare_subcatalog_ok(n)
       /\ disk' = WriteFile(_paths[tasks[n].tstring].catalog, Partial(n))

\* task.run() raises
task_raise ==
    /\ pc = "running"
    /\ \E n \in executing :
        /\ RaiseLeaves(n)
        /\ pc' = AfterRaise
        /\ executing' = executing \ {n}
        /\ raised' = raised \cup {n}
        /\ cursor' = IF AfterRaise = "raised" THEN cursor ELSE cursor + 1
    /\ UNCHANGED <<timewindows, models, tests, _paths, _exists, dirs,
                   forecasts, tasks, executed, runs>>
    /\ UNCHANGED task_runs
    /\ UNCHANGED gefeVars
    /\ UNCHANGED regVars
    /\ UNCHANGED dictVars
    /\ UNCHANGED lateVars

\* the loop is over: run() returns
run_return ==
    /\ pc = "running"
    /\ executing = {}
    /\ cursor > Len(tasks)
    /\ pc' = "returned"
    /\ UNCHANGED <<timewindows, models, tests, _paths, _exists, dirs, disk,
                   forecasts, tasks, cursor, executing, executed, raised,
                   runs>>
    /\ UNCHANGED task_runs
    /\ UNCHANGED gefeVars
    /\ UNCHANGED regVars
    /\ UNCHANGED dictVars
    /\ UNCHANGED lateVars

(***************************************************************************)
(* The scheduler: an experiment whose configuration has been read.         *)
(***************************************************************************)
TimeConfigs == {timewindows_ti(n) : n \in 1..MaxWindows}

TestConfigs ==
    SeqsUpTo({t \in Evaluations : WellFormedTest(t)}, MaxTests)

ModelConfigs == SeqsUpTo(ModelNames, MaxModels)

\* ExperimentRegistry.__init__: no tree has been built
RegIdle ==
    /\ results = <<>>
    /\ test_catalogs = <<>>
    /\ figures = <<>>
    /\ built = <<>>
    /\ lookup = <<>>

\* no catalog is read
SubcatIdle ==
    /\ catalog = {}
    /\ subcatalogs = <<>>

\* no command has been given
CliIdle == cli = <<>>

\* no catalog was plotted
PlotIdle == plots = <<>>

\* no gefe experiment asks for its catalog
CatIdle == g_cat = <<>>

LateIdle == SubcatIdle /\ CliIdle /\ PlotIdle /\ CatIdle

\* no Experiment whose to_dict is looked at
DictIdle ==
    /\ exp_args = <<>>
    /\ exp_dict = <<>>
    /\ to_dict_out = <<>>

GefeIdle ==
    /\ g_start_date = 0
    /\ g_end_date = 0
    /\ g_test_date = 0
    /\ g_forecasts = [m \in ModelNames |-> {}]
    /\ g_calls = [m \in ModelNames |-> 0]

Init ==
    /\ timewindows \in TimeConfigs
    /\ models \in ModelConfigs
    /\ tests \in TestConfigs
    /\ _paths = <<>>
    /\ _exists = <<>>
    /\ dirs = {}
    /\ disk = <<>>
    /\ forecasts = {}
    /\ tasks = <<>>
    /\ pc = "idle"
    /\ cursor = 1
    /\ executing = {}
    /\ executed = <<>>
    /\ raised = {}
    /\ runs = 0
    /\ task_runs = <<>>
    /\ GefeIdle
    /\ RegIdle
    /\ DictIdle
    /\ LateIdle

Next ==
    \/ prepare_paths
    \/ prepare_tasks
    \/ run_call
    \/ task_start
    \/ task_return
    \/ task_raise
    \/ run_return

Spec == Init /\ [][Next]_vars

(***************************************************************************)
(* gefe: Experiment.get_forecast and Model.create_forecast.  Dates are     *)
(* numbers, and the experiment has its test date set (get_run_struct       *)
(* refuses to run without).  start_date and end_date are set by the        *)
(* constructor only, so the window a forecast is created for is the same   *)
(* in every call: g_calls counts the invocations of model.func for that    *)
(* window.                                                                 *)
(***************************************************************************)
Dates == 0..MaxDate

\* Model.create_forecast(start_date, test_date): invokes self.func and
\* binds the forecast to self.forecasts[test_date]
g_create_forecast(m, start_date, test_date) ==
    /\ g_calls' = [g_calls EXCEPT ![m] = @ + 1]
    /\ g_forecasts' = [g_forecasts EXCEPT ![m] = @ \cup {test_date}]

\* Experiment.get_forecast(model): model.forecasts[self.test_date], and on
\* KeyError model.create_forecast(self.start_date, self.end_date)
get_forecast(m) ==
    /\ IF g_test_date \in g_forecasts[m]
       THEN UNCHANGED <<g_forecasts, g_calls>>
       ELSE /\ g_calls[m] < MaxCalls
            /\ g_create_forecast(m, g_start_date, g_end_date)
    /\ UNCHANGED <<g_start_date, g_end_date, g_test_date>>
    /\ UNCHANGED schedVars
    /\ UNCHANGED regVars
    /\ UNCHANGED dictVars
    /\ UNCHANGED lateVars

\* Experiment.set_test_date(date)
set_test_date(date) ==
    /\ g_test_date' = date
    /\ UNCHANGED <<g_start_date, g_end_date, g_forecasts, g_calls>>
    /\ UNCHANGED schedVars
    /\ UNCHANGED regVars
    /\ UNCHANGED dictVars
    /\ UNCHANGED lateVars

SchedIdle ==
    /\ timewindows = <<>>
    /\ models = <<>>
    /\ tests = <<>>
    /\ _paths = <<>>
    /\ _exists = <<>>
    /\ dirs = {}
    /\ disk = <<>>
    /\ forecasts = {}
    /\ tasks = <<>>
    /\ pc = "idle"
    /\ cursor = 1
    /\ executing = {}
    /\ executed = <<>>
    /\ raised = {}
    /\ runs = 0
    /\ task_runs = <<>>

\* Experiment(start_date, end_date, test_date) with its models set
InitGefe ==
    /\ g_start_date \in Dates
    /\ g_end_date \in Dates
    /\ g_test_date \in Dates
    /\ g_forecasts = [m \in ModelNames |-> {}]
    /\ g_calls = [m \in ModelNames |-> 0]
    /\ SchedIdle
    /\ RegIdle
    /\ DictIdle
    /\ LateIdle

NextGefe ==
    \/ \E m \in ModelNames : get_forecast(m)
    \/ \E date \in Dates : set_test_date(date)

SpecGefe == InitGefe /\ [][NextGefe]_vars

(***************************************************************************)
(* Properties of the task list.                                            *)
(***************************************************************************)
TaskIds == 1..Len(tasks)
ComputeIds == {n \in TaskIds : tasks[n].method = "compute"}
Range(f) == {f[x] : x \in DOMAIN f}

\* prepare_tasks has assigned self.tasks (every list holds a catalog task)
TasksBuilt == tasks # <<>>

\* the test a compute task is bound to
TestOf(n) == tests[tasks[n].instance]

\* the position in self.timewindows of the window of that string
WindowIndex(w) == CHOOSE i \in 1..Len(windows) : windows[i] = w

\* the reference models of a task that are models (not None)
RefModels(n) == Range(tasks[n].ref_model) \ {NoObject}

\* C1: every compute task comes after the prepare_subcatalog task of each
\* window it is bound to, and after the create_forecast task of its model
\* and of each of its reference models for each of those windows.
C1_InputsBefore ==
    \A n \in ComputeIds :
        \A i \in 1..Len(tasks[n].timewindow) :
            /\ \E c \in 1..(n - 1) :
                /\ tasks[c].method = "prepare_subcatalog"
                /\ tasks[c].tstring = tasks[n].timewindow[i]
                /\ tasks[n].catalog[i] = CatalogPath(tasks[c].tstring)
            /\ \A m \in {tasks[n].model} \cup RefModels(n) :
                \E f \in 1..(n - 1) :
                    /\ tasks[f].method = "create_forecast"
                    /\ tasks[f].instance = m
                    /\ tasks[f].tstring = tasks[n].timewindow[i]

\* a comparative task over two windows whose reference is another model,
\* next to a Discrete task with a reference
C1_Witness ==
    /\ \E n \in ComputeIds :
        /\ Len(tasks[n].timewindow) = 2
        /\ RefModels(n) # {}
        /\ tasks[n].model \notin RefModels(n)
    /\ \E n \in ComputeIds :
        /\ ~tasks[n].listed
        /\ RefModels(n) # {}
        /\ tasks[n].model \notin RefModels(n)

\* the Discrete-Absolute tests, and the tasks built for them
DiscreteAbsoluteTests ==
    {k \in 1..Len(tests) : IsDiscreteAbsolute(tests[k])}
DiscreteAbsoluteIds ==
    {n \in ComputeIds : IsDiscreteAbsolute(TestOf(n))}

\* C2: the Discrete-Absolute tasks are |timewindows| x |models| x
\* |Discrete-Absolute tests| many, exactly one for each (window, model, test).
C2_DiscreteAbsoluteCount ==
    TasksBuilt =>
        /\ Cardinality(DiscreteAbsoluteIds) =
              Len(timewindows) * Len(models)
                * Cardinality(DiscreteAbsoluteTests)
        /\ \A i \in 1..Len(timewindows), j \in 1..Len(models),
              k \in DiscreteAbsoluteTests :
              Cardinality({n \in DiscreteAbsoluteIds :
                  /\ tasks[n].timewindow = <<windows[i]>>
                  /\ tasks[n].model = j
                  /\ tasks[n].instance = k}) = 1

C2_Witness ==
    /\ TasksBuilt
    /\ Len(timewindows) = 2
    /\ Len(models) = 2
    /\ Cardinality(DiscreteAbsoluteTests) = 2
    /\ Cardinality(DiscreteAbsoluteIds) = 8

\* C3: no task of a Comparative test has the reference model of the test
\* as its model.
C3_NoSelfComparison ==
    \A n \in ComputeIds :
        IsComparative(TestOf(n)) => tasks[n].model \notin RefModels(n)

\* the tasks of test k bound to window i only
DiscreteTasksOf(k, i) ==
    {n \in ComputeIds :
        tasks[n].instance = k /\ tasks[n].timewindow = <<windows[i]>>}

\* C4: a Discrete-Comparative test whose ref_model names a model has M - 1
\* tasks in each window.
C4_ComparativeCount ==
    TasksBuilt =>
        \A k \in 1..Len(tests) :
            (IsDiscreteComparative(tests[k])
                /\ get_model(tests[k].ref_model) # NoObject) =>
            \A i \in 1..Len(timewindows) :
                Cardinality(DiscreteTasksOf(k, i)) = Len(models) - 1

\* the window a task of the window loop belongs to
WindowOf(n) ==
    IF tasks[n].method = "compute"
    THEN WindowIndex(tasks[n].timewindow[1])
    ELSE WindowIndex(tasks[n].tstring)

OnlyDiscreteAbsolute ==
    \A k \in 1..Len(tests) : IsDiscreteAbsolute(tests[k])

\* C5: with Discrete-Absolute tests only the list holds W x (1 + M + M x K)
\* tasks, and the tasks of a window come before those of the next window.
C5_LengthAndWindowOrder ==
    (TasksBuilt /\ OnlyDiscreteAbsolute) =>
        /\ Len(tasks) =
              Len(timewindows)
                * (1 + Len(models) + Len(models) * Len(tests))
        /\ \A a, b \in TaskIds : a < b => WindowOf(a) <= WindowOf(b)

\* scenario 1: 2 windows, 1 model, 1 Discrete-Absolute test, 6 tasks
C5_Witness ==
    /\ TasksBuilt
    /\ OnlyDiscreteAbsolute
    /\ Len(timewindows) = 2
    /\ Len(models) = 1
    /\ Len(tests) = 1
    /\ Len(tasks) = 6

IsSequentialTest(t) ==
    IsSequential(t) /\ (IsAbsolute(t) \/ IsComparative(t))

\* C6: a Sequential-Absolute or Sequential-Comparative test has exactly one
\* task per model, bound to the catalogs of all windows in order, whose
\* result goes below the last window.
C6_SequentialOncePerModel ==
    TasksBuilt =>
        \A k \in 1..Len(tests) : IsSequentialTest(tests[k]) =>
            /\ Cardinality({n \in ComputeIds : tasks[n].instance = k})
                  = Len(models)
            /\ \A j \in 1..Len(models) :
                \E n \in ComputeIds :
                    /\ tasks[n].instance = k
                    /\ tasks[n].model = j
                    /\ tasks[n].listed
                    /\ tasks[n].timewindow = windows
                    /\ tasks[n].catalog =
                          [i \in 1..Len(windows) |-> CatalogPath(windows[i])]
                    /\ tasks[n].path =
                          ResultPath(windows[Len(windows)], tests[k].name,
                                     models[j])

C6_Witness ==
    /\ TasksBuilt
    /\ Len(timewindows) = 2
    /\ Len(models) = 2
    /\ \E k \in 1..Len(tests) :
        /\ IsSequential(tests[k]) /\ IsAbsolute(tests[k])
        /\ Cardinality({n \in ComputeIds : tasks[n].instance = k}) = 2

(***************************************************************************)
(* Properties of run().                                                    *)
(***************************************************************************)
FirstN(n) == [k \in 1..n |-> k]

\* C8: run() executes the tasks one after another in list order: at most
\* one task is executing, it is the one after those that returned, and
\* when run() returns every task has been executed exactly once.
C8_SequentialExecution ==
    /\ Cardinality(executing) <= 1
    /\ executing \subseteq {cursor}
    /\ executed = FirstN(Len(executed))
    /\ cursor = Len(executed) + 1
    /\ pc = "returned" => executed = FirstN(Len(tasks))

C8_Witness ==
    /\ pc = "returned"
    /\ Len(tasks) >= 6
    /\ executed = FirstN(Len(tasks))

\* the file a task writes: nothing for create_forecast, and nothing for a
\* prepare_subcatalog whose window has no path
OutPath(n) ==
    IF tasks[n].method = "compute" THEN tasks[n].path
    ELSE IF tasks[n].method = "prepare_subcatalog"
            /\ tasks[n].tstring \in DOMAIN _paths
    THEN _paths[tasks[n].tstring].catalog
    ELSE <<>>

\* the files this call of run() wrote
WrittenNow == {p \in DOMAIN disk : disk[p].run = runs}

\* C9: when a task raised, run() is left with the error, the tasks after it
\* were not executed, and the files hold what the tasks before it wrote.
C9_RaiseAborts ==
    raised # {} =>
        /\ pc = "raised"
        /\ executing = {}
        /\ raised = {cursor}
        /\ executed = FirstN(cursor - 1)
        /\ \A p \in WrittenNow :
              \/ disk[p].complete /\ disk[p].task \in Range(executed)
              \/ ~disk[p].complete /\ disk[p].task \in raised
                    /\ \A n \in Range(executed) : OutPath(n) # p
        /\ \A n \in Range(executed) : OutPath(n) # <<>> =>
              /\ OutPath(n) \in WrittenNow
              /\ disk[OutPath(n)].complete
              /\ OutPath(disk[OutPath(n)].task) = OutPath(n)
              /\ disk[OutPath(n)].task >= n

\* a task in the middle of the list raised after others had written files
C9_Witness ==
    /\ pc = "raised"
    /\ \E n \in raised : n > 3 /\ n < Len(tasks)
    /\ Cardinality(WrittenNow) >= 2

(***************************************************************************)
(* Properties of the output paths.                                         *)
(***************************************************************************)
WriterIds == {n \in TaskIds : OutPath(n) # <<>>}

\* C10 as stated: no two tasks of the list write to the same file.
C10_PathsDistinct ==
    \A a, b \in WriterIds : a # b => OutPath(a) # OutPath(b)

HasUnderscore(name) == IsSubstring("_", name)

\* the names of the models differ, the names of the tests differ, and the
\* names of the tests or those of the models hold no "_"
UnambiguousNames ==
    /\ \A i, j \in 1..Len(models) : i # j => models[i] # models[j]
    /\ \A i, j \in 1..Len(tests) : i # j => tests[i].name # tests[j].name
    /\ \/ \A k \in 1..Len(tests) : ~HasUnderscore(tests[k].name)
       \/ \A j \in 1..Len(models) : ~HasUnderscore(models[j])

\* C10 as amended: with unambiguous names no two tasks of the list write to
\* the same file.
C10_PathsDistinctIfUnambiguous ==
    UnambiguousNames => C10_PathsDistinct

C10_Witness ==
    /\ TasksBuilt
    /\ UnambiguousNames
    /\ Len(timewindows) = 2
    /\ Len(tests) = 2
    /\ Cardinality(ComputeIds) >= 4
    /\ Cardinality({OutPath(n) : n \in WriterIds}) >= 6

(***************************************************************************)
(* Properties of gefe's forecasts.                                         *)
(***************************************************************************)
\* C7: the forecast function of a model is invoked at most once for the
\* window of the experiment, however often the forecast is requested.
C7_ForecastCreatedOnce ==
    \A m \in ModelNames : g_calls[m] <= 1

(***************************************************************************)
(* Properties of the reference model of a task.                            *)
(***************************************************************************)
\* the tests whose ref_model names no model of the experiment
UnresolvedTests ==
    {k \in 1..Len(tests) :
        IsComparative(tests[k]) /\ get_model(tests[k].ref_model) = NoObject}

\* C11: no task is built or run with an unresolved reference model (None
\* where the keyword ref_model is given), and no task of an experiment with
\* an unresolved Comparative test is executed.
C11_RefModelResolved ==
    /\ \A n \in ComputeIds :
          "ref_model" \in tasks[n].kwargs =>
              NoObject \notin Range(tasks[n].ref_model)
    /\ UnresolvedTests # {} => (executing = {} /\ executed = <<>>)

(***************************************************************************)
(* Running an experiment again: a new Experiment is built from the same    *)
(* configuration in a folder where an earlier, complete run has left its   *)
(* files.  prepare_paths then reads the existence flags of those files.    *)
(***************************************************************************)
\* the windows under which prepare_tasks places the results of a test
ResultWindows(t) ==
    IF IsDiscreteAbsolute(t) \/ IsDiscreteComparative(t) THEN WindowSet
    ELSE IF EmitsTasks(t) THEN {windows[Len(windows)]}
    ELSE {}

\* the result files of the tasks of the experiment
ResultFiles ==
    UNION {{ResultPath(w, tests[k].name, models[j]) :
                w \in ResultWindows(tests[k])} :
           k \in 1..Len(tests), j \in 1..Len(models)}

\* the files a complete run writes
CompleteRunFiles == {CatalogPath(w) : w \in WindowSet} \cup ResultFiles

\* what a file of an earlier run holds
Earlier == [task |-> 0, run |-> 0, complete |-> TRUE]

\* the complete run of Spec leaves exactly the files InitRerun starts with
CompleteRunLeavesFiles ==
    (pc = "returned" /\ TasksBuilt) => DOMAIN disk = CompleteRunFiles

InitRerun ==
    /\ timewindows \in TimeConfigs
    /\ models \in ModelConfigs
    /\ tests \in TestConfigs
    /\ _paths = <<>>
    /\ _exists = <<>>
    /\ dirs = dirtree
    /\ disk = [p \in CompleteRunFiles |-> Earlier]
    /\ forecasts = {}
    /\ tasks = <<>>
    /\ pc = "idle"
    /\ cursor = 1
    /\ executing = {}
    /\ executed = <<>>
    /\ raised = {}
    /\ runs = 0
    /\ task_runs = <<>>
    /\ GefeIdle
    /\ RegIdle
    /\ DictIdle
    /\ LateIdle

SpecRerun == InitRerun /\ [][Next]_vars

\* the existence flags of all results of the experiment are set
AllResultsFlagged ==
    /\ WindowSet \subseteq DOMAIN _exists
    /\ \A w \in WindowSet, k \in 1..Len(tests), j \in 1..Len(models) :
          w \in ResultWindows(tests[k]) =>
              _exists[w].evaluations[tests[k].name][models[j]]

\* C12: when the run of an experiment whose results exist returns, every
\* result file has been written again by an evaluation task of this run:
\* no task was left out or skipped because of the existence flags.
C12_RerunOverwrites ==
    (pc = "returned" /\ TasksBuilt) =>
        /\ \A p \in ResultFiles :
              /\ disk[p].run = runs
              /\ disk[p].complete
              /\ disk[p].task \in ComputeIds \cap Range(executed)
              /\ tasks[disk[p].task].path = p
        /\ \A k \in 1..Len(tests), j \in 1..Len(models) :
              \A w \in ResultWindows(tests[k]) :
                  \E n \in ComputeIds \cap Range(executed) :
                      /\ tasks[n].instance = k
                      /\ tasks[n].model = j
                      /\ tasks[n].path = ResultPath(w, tests[k].name, models[j])

\* a re-run with the flags of all its results set, two windows and two
\* models, has returned
C12_Witness ==
    /\ pc = "returned"
    /\ TasksBuilt
    /\ AllResultsFlagged
    /\ Len(timewindows) = 2
    /\ Len(models) = 2
    /\ \E k \in 1..Len(tests) : IsDiscreteAbsolute(tests[k])
    /\ \E k \in 1..Len(tests) : IsSequentialTest(tests[k])
    /\ \A p \in ResultFiles : disk[p].run = 1

(***************************************************************************)
(* floatcsep: ExperimentRegistry.  A dict is a function of its keys; a str *)
(* value of a dict is Str(p), p the sequence of the segments of the path   *)
(* (no key of a tree is "str").                                            *)
(***************************************************************************)
Str(p) == [str |-> p]
IsStr(val) == DOMAIN val = {"str"}

\* self.workdir and self.run_dir
workdir == "workdir"
run_dir == "results"

\* os.path.join of segments
join(segments) == Str(segments)

\* BaseFileRegistry.abs: normpath(abspath(join(self.workdir, *paths)))
abs(paths) == <<workdir>> \o paths

\* the names of the tests given to build_tree: "forecasts" is also a key
\* build_tree itself writes
RegTestNames == {"T", "forecasts"}

\* faulty variant of run_folder: a folder named after what is on disk
run_folder_stamped == run_dir \o ToString(Cardinality(dirs))

\* run_folder = self.run_dir
run_folder == run_dir

\* dirtree of build_tree, for the windows `wins'
reg_dirtree(wins) ==
    {abs(<<run_folder, win, folder>>) :
        win \in wins, folder \in {"catalog", "evaluations", "figures"}}

\* results of build_tree
reg_results(wins, ms, ts) ==
    [win \in wins |->
        [test \in ts |->
            [model \in ms |->
                join(<<win, "evaluations", ResultFileName(test, model)>>)]]]

\* test_catalogs of build_tree
reg_test_catalogs(wins) ==
    [win \in wins |-> join(<<win, "catalog", "test_catalog.json">>)]

\* the figures of a window: a later key of the dict display replaces an
\* earlier one of the same name
reg_window_figures(win, ms, ts) ==
    [key \in ts \cup {"catalog", "magnitude_time", "forecasts"} |->
        IF key = "forecasts"
        THEN [model \in ms |-> join(<<win, "figures", "forecast_" \o model>>)]
        ELSE IF key = "magnitude_time"
        THEN join(<<win, "figures", "catalog_time">>)
        ELSE IF key = "catalog"
        THEN join(<<win, "figures", "catalog_map">>)
        ELSE join(<<win, "figures", key>>)]

\* figures of build_tree
reg_figures(wins, ms, ts) ==
    [key \in {"main_catalog_map", "main_catalog_time"} \cup wins |->
        IF key \in wins THEN reg_window_figures(key, ms, ts)
        ELSE IF key = "main_catalog_map" THEN Str(<<"catalog">>)
        ELSE Str(<<"events">>)]

\* ExperimentRegistry.build_tree(timewindows, models, tests); models and
\* tests are given by the names of the objects
build_tree(tws, ms, ts) ==
    /\ dirs' = dirs \cup reg_dirtree(Range(timewindows2str(tws)))
    /\ results' = reg_results(Range(timewindows2str(tws)), Range(ms), Range(ts))
    /\ test_catalogs' = reg_test_catalogs(Range(timewindows2str(tws)))
    /\ figures' = reg_figures(Range(timewindows2str(tws)), Range(ms), Range(ts))
    /\ built' = <<tws, ms, ts>>
    /\ lookup' = <<>>
    /\ UNCHANGED <<timewindows, models, tests, _paths, _exists, disk,
                   forecasts, tasks, pc, cursor, executing, executed, raised,
                   runs, task_runs>>
    /\ UNCHANGED gefeVars
    /\ UNCHANGED dictVars
    /\ UNCHANGED lateVars

\* the arguments of a lookup: a time window (a list), a string, an object
\* with a name, a function, an object with both attributes, anything else.
\* An attribute that is None is one the object does not have.
List(tw) ==
    [kind |-> "list", items |-> tw, val |-> None, name |-> None,
     __name__ |-> None]
String(s) ==
    [kind |-> "str", items |-> <<>>, val |-> s, name |-> None,
     __name__ |-> None]
Object(name, fname) ==
    [kind |-> "object", items |-> <<>>, val |-> None, name |-> name,
     __name__ |-> fname]
Named(name) == Object(name, None)
Function(fname) == Object(None, fname)
Other == Object(None, None)

\* BaseFileRegistry._parse_arg: the final `raise'
_parse_arg_raises(arg) ==
    /\ arg.kind \notin {"list", "str"}
    /\ arg.name = None
    /\ arg.__name__ = None

\* faulty variant of _parse_arg: __name__ is asked for before name
_parse_arg_functionfirst(arg) ==
    IF arg.kind = "list" THEN timewindow2str(arg.items)
    ELSE IF arg.kind = "str" THEN arg.val
    ELSE IF arg.__name__ # None THEN arg.__name__
    ELSE arg.name

\* BaseFileRegistry._parse_arg: the key of an argument
_parse_arg(arg) ==
    IF arg.kind = "list" THEN timewindow2str(arg.items)
    ELSE IF arg.kind = "str" THEN arg.val
    ELSE IF arg.name # None THEN arg.name
    ELSE arg.__name__

\* what a call gave: a path, or the exception it raised
Returns(p) == [error |-> None, path |-> p]

\* faulty variant of Raises: a failed lookup gives the run folder
Raises_fallback(e) == [error |-> None, path |-> abs(<<run_dir>>)]

Raises(e) == [error |-> e, path |-> <<>>]

\* for i in args: val = val[self._parse_arg(i)], then self.abs(run_dir, val)
RECURSIVE Walk(_, _)
Walk(val, args) ==
    IF args = <<>>
    THEN IF IsStr(val) THEN Returns(abs(<<run_dir>> \o val.str))
         ELSE Raises("TypeError")
    ELSE IF _parse_arg_raises(Head(args)) THEN Raises("Exception")
    ELSE IF IsStr(val) THEN Raises("TypeError")
    ELSE IF _parse_arg(Head(args)) \notin DOMAIN val THEN Raises("KeyError")
    ELSE Walk(val[_parse_arg(Head(args))], Tail(args))

\* self.__dict__ of the registry
reg_dict ==
    [workdir |-> Str(<<workdir>>),
     run_dir |-> Str(<<run_dir>>),
     results |-> results,
     test_catalogs |-> test_catalogs,
     figures |-> figures,
     repr_config |-> Str(<<"repr_config.yml">>),
     forecast_registries |-> <<>>]

\* what a lookup leaves in `lookup'
Looked(method, val, args) ==
    [method |-> method, args |-> args, outcome |-> Walk(val, args)]

\* ExperimentRegistry.get
get(args) ==
    /\ lookup' = Looked("get", reg_dict, args)
    /\ UNCHANGED <<results, test_catalogs, figures, built>>
    /\ UNCHANGED schedVars
    /\ UNCHANGED gefeVars
    /\ UNCHANGED dictVars
    /\ UNCHANGED lateVars

\* ExperimentRegistry.get_result
get_result(args) ==
    /\ lookup' = Looked("get_result", results, args)
    /\ UNCHANGED <<results, test_catalogs, figures, built>>
    /\ UNCHANGED schedVars
    /\ UNCHANGED gefeVars
    /\ UNCHANGED dictVars
    /\ UNCHANGED lateVars

\* ExperimentRegistry.get_test_catalog
get_test_catalog(args) ==
    /\ lookup' = Looked("get_test_catalog", test_catalogs, args)
    /\ UNCHANGED <<results, test_catalogs, figures, built>>
    /\ UNCHANGED schedVars
    /\ UNCHANGED gefeVars
    /\ UNCHANGED dictVars
    /\ UNCHANGED lateVars

\* ExperimentRegistry.get_figure
get_figure(args) ==
    /\ lookup' = Looked("get_figure", figures, args)
    /\ UNCHANGED <<results, test_catalogs, figures, built>>
    /\ UNCHANGED schedVars
    /\ UNCHANGED gefeVars
    /\ UNCHANGED dictVars
    /\ UNCHANGED lateVars

\* the arguments the calls are made with
\* build_tree is called with lists of distinct names (a name given twice
\* is one key of the dicts)
Injective(seq) == \A i, j \in 1..Len(seq) : i # j => seq[i] # seq[j]

BuildArgs ==
    TimeConfigs
    \X {ms \in ModelConfigs : Injective(ms)}
    \X {ts \in SeqsUpTo(RegTestNames, MaxTests) : Injective(ts)}

WindowArgs == {List(<<i - 1, i>>) : i \in 1..(MaxWindows + 1)}
TestArgs == {Named(t) : t \in RegTestNames}
ModelArgs == {Named(m) : m \in ModelNames}
FigureKeys == {String("catalog"), String("magnitude_time"),
               String("forecasts"), String("catalog_map")}

\* (window, test, model), and for the first window a key too few and a key
\* too many
ResultArgs ==
    {<<w, t, m>> : w \in WindowArgs, t \in TestArgs, m \in ModelArgs}
    \cup {<<List(<<0, 1>>), t>> : t \in TestArgs}
    \cup {<<List(<<0, 1>>), t, m, m>> : t \in TestArgs, m \in ModelArgs}

CatalogArgs ==
    {<<w>> : w \in WindowArgs} \cup {<<String("0_1")>>, <<Other>>, <<>>}

FigureArgs ==
    {<<String("main_catalog_map")>>, <<String("main_catalog_time")>>,
     <<List(<<0, 1>>)>>}
    \cup {<<w, t>> : w \in WindowArgs, t \in TestArgs \cup FigureKeys}
    \cup {<<w, String("forecasts"), m>> : w \in WindowArgs, m \in ModelArgs}
    \cup {<<List(<<0, 1>>), t, m>> : t \in TestArgs, m \in ModelArgs}

GetArgs ==
    {<<String("results"), w, t, m>> :
        w \in WindowArgs, t \in TestArgs, m \in ModelArgs}
    \cup {<<String("test_catalogs"), w>> : w \in WindowArgs}
    \cup {<<String("figures"), w, String("forecasts"), m>> :
            w \in WindowArgs, m \in ModelArgs}
    \cup {<<String("run_dir")>>, <<String("repr_config")>>,
          <<String("tasks")>>}

InitReg ==
    /\ SchedIdle
    /\ GefeIdle
    /\ RegIdle
    /\ DictIdle
    /\ LateIdle

NextReg ==
    \/ \E a \in BuildArgs : build_tree(a[1], a[2], a[3])
    \/ \E args \in GetArgs : get(args)
    \/ \E args \in ResultArgs : get_result(args)
    \/ \E args \in CatalogArgs : get_test_catalog(args)
    \/ \E args \in FigureArgs : get_figure(args)

SpecReg == InitReg /\ [][NextReg]_vars

(***************************************************************************)
(* Tree building: prepare_paths of an experiment and build_tree of a       *)
(* registry, each called any number of times.                              *)
(***************************************************************************)
\* the experiment: distinct models, distinct Discrete-Absolute tests
InitTree ==
    /\ Init
    /\ Injective(models)
    /\ Injective([k \in 1..Len(tests) |-> tests[k].name])
    /\ \A k \in 1..Len(tests) : tests[k].type = {"Discrete", "Absolute"}

NextTree ==
    \/ prepare_paths
    \/ \E a \in BuildArgs : build_tree(a[1], a[2], a[3])

SpecTree == InitTree /\ [][NextTree]_vars

\* C13: a call of prepare_paths after an earlier one, and a call of
\* build_tree with the arguments of the last one, leave the path mapping
\* and the set of directories on disk as they were.
C13_TreeBuildIdempotent ==
    [][/\ (prepare_paths /\ _paths # <<>>) =>
            (_paths' = _paths /\ dirs' = dirs)
       /\ (built # <<>> /\ build_tree(built[1], built[2], built[3])) =>
            /\ results' = results
            /\ test_catalogs' = test_catalogs
            /\ figures' = figures
            /\ dirs' = dirs]_vars

\* both trees have been built, for two windows, two models and two tests
C13_Witness ==
    /\ _paths # <<>>
    /\ DOMAIN _paths = {"0_1", "1_2"}
    /\ Len(models) = 2 /\ Len(tests) = 2
    /\ built # <<>>
    /\ Len(built[1]) = 2 /\ Len(built[2]) = 2 /\ Len(built[3]) = 2
    /\ DOMAIN results = {"0_1", "1_2"}
    /\ reg_dirtree(DOMAIN results) \subseteq dirs
    /\ dirtree \subseteq dirs

(***************************************************************************)
(* Properties of the registry.                                             *)
(***************************************************************************)
\* the keys of the tree the last build_tree built
BuiltWindows == Range(timewindows2str(built[1]))
BuiltModels == Range(built[2])
BuiltTests == Range(built[3])

\* a call was a lookup
Looking == lookup # <<>>

\* the lookups of a tree that has been built for a window, a test and a
\* model: the test catalog of the window, the result of (window, test,
\* model), the figure of (window, test), the forecast figure of (window,
\* model)
LookupOfBuilt ==
    /\ Looking
    /\ built # <<>>
    /\ \E w \in WindowArgs, t \in TestArgs, m \in ModelArgs :
        /\ _parse_arg(w) \in BuiltWindows
        /\ _parse_arg(t) \in BuiltTests
        /\ _parse_arg(m) \in BuiltModels
        /\ \/ lookup.method = "get_test_catalog" /\ lookup.args = <<w>>
           \/ lookup.method = "get_result" /\ lookup.args = <<w, t, m>>
           \/ lookup.method = "get_figure" /\ lookup.args = <<w, t>>
           \/ lookup.method = "get_figure"
                /\ lookup.args = <<w, String("forecasts"), m>>

\* C14: get_test_catalog(w), get_result(w, t, m), get_figure(w, t) and
\* get_figure(w, 'forecasts', m) resolve to a path for every window w, test
\* t and model m the tree was built for.
C14_BuiltKeysResolve ==
    LookupOfBuilt => lookup.outcome.error = None

\* the tree of a lookup method as the last build_tree built it, told from
\* the arguments of that call: the key paths that lead to a dict (Nodes)
\* and those that lead to a path (Leaves)
ResultNodes ==
    {<<>>} \cup {<<w>> : w \in BuiltWindows}
    \cup {<<w, t>> : w \in BuiltWindows, t \in BuiltTests}
ResultLeaves ==
    {<<w, t, m>> : w \in BuiltWindows, t \in BuiltTests, m \in BuiltModels}
CatalogNodes == {<<>>}
CatalogLeaves == {<<w>> : w \in BuiltWindows}
FigureNodes ==
    {<<>>} \cup {<<w>> : w \in BuiltWindows}
    \cup {<<w, "forecasts">> : w \in BuiltWindows}
FigureLeaves ==
    {<<"main_catalog_map">>, <<"main_catalog_time">>}
    \cup {<<w, k>> : w \in BuiltWindows,
                     k \in (BuiltTests \cup {"catalog", "magnitude_time"})
                            \ {"forecasts"}}
    \cup {<<w, "forecasts", m>> : w \in BuiltWindows, m \in BuiltModels}

Under(attr, paths) == {<<attr>> \o p : p \in paths}

Nodes(method) ==
    IF built = <<>> THEN
        IF method = "get"
        THEN {<<>>, <<"results">>, <<"test_catalogs">>, <<"figures">>,
              <<"forecast_registries">>}
        ELSE {<<>>}
    ELSE IF method = "get_result" THEN ResultNodes
    ELSE IF method = "get_test_catalog" THEN CatalogNodes
    ELSE IF method = "get_figure" THEN FigureNodes
    ELSE {<<>>, <<"forecast_registries">>}
         \cup Under("results", ResultNodes)
         \cup Under("test_catalogs", CatalogNodes)
         \cup Under("figures", FigureNodes)

Leaves(method) ==
    IF built = <<>> THEN
        IF method = "get"
        THEN {<<"workdir">>, <<"run_dir">>, <<"repr_config">>}
        ELSE {}
    ELSE IF method = "get_result" THEN ResultLeaves
    ELSE IF method = "get_test_catalog" THEN CatalogLeaves
    ELSE IF method = "get_figure" THEN FigureLeaves
    ELSE {<<"workdir">>, <<"run_dir">>, <<"repr_config">>}
         \cup Under("results", ResultLeaves)
         \cup Under("test_catalogs", CatalogLeaves)
         \cup Under("figures", FigureLeaves)

\* the keys of the arguments of the lookup
LookupKeys == [i \in 1..Len(lookup.args) |-> _parse_arg(lookup.args[i])]

\* a segment of the key path is absent from the tree: the keys before it
\* lead to a dict, and the dict has no such key
SegmentAbsent ==
    \E i \in 1..Len(LookupKeys) :
        /\ SubSeq(LookupKeys, 1, i - 1) \in Nodes(lookup.method)
        /\ SubSeq(LookupKeys, 1, i) \notin
              Nodes(lookup.method) \cup Leaves(lookup.method)

\* the mappings are those of the last build_tree
MappingsAsBuilt ==
    IF built = <<>>
    THEN results = <<>> /\ test_catalogs = <<>> /\ figures = <<>>
    ELSE /\ results = reg_results(BuiltWindows, BuiltModels, BuiltTests)
         /\ test_catalogs = reg_test_catalogs(BuiltWindows)
         /\ figures = reg_figures(BuiltWindows, BuiltModels, BuiltTests)

\* C15: a lookup with a key segment that is absent from the tree of the
\* last build_tree raises KeyError; a lookup gives a path only for a key
\* path that was built; and after a lookup, failed or not, the mappings
\* are those the last build_tree built.
C15_AbsentKeyRaises ==
    Looking =>
        /\ MappingsAsBuilt
        /\ (\A i \in 1..Len(lookup.args) : lookup.args[i] # Other) =>
            /\ SegmentAbsent <=> lookup.outcome.error = "KeyError"
            /\ (LookupKeys \in Leaves(lookup.method))
                  <=> lookup.outcome.error = None
        /\ lookup.outcome.error # None => lookup.outcome.path = <<>>

\* get_result of a window and a test that were built and a model that was
\* not, in a tree of two windows, raised KeyError
C15_Witness ==
    /\ Looking
    /\ built # <<>>
    /\ Cardinality(BuiltWindows) = 2
    /\ lookup.method = "get_result"
    /\ Len(lookup.args) = 3
    /\ LookupKeys[1] \in BuiltWindows
    /\ LookupKeys[2] \in BuiltTests
    /\ LookupKeys[3] \notin BuiltModels
    /\ BuiltModels # {}
    /\ lookup.outcome.error = "KeyError"

\* ---------------------------------------------------------------------
\* Experiment.to_dict (fecsep/experiment.py).  Python values carry their
\* type, since to_dict branches on it and on their truth value.
\* ---------------------------------------------------------------------

PyNone == [t |-> "None"]
PyStr(s) == [t |-> "str", v |-> s]
PyInt(n) == [t |-> "int", v |-> n]
PyList(q) == [t |-> "list", v |-> q]
PyDict(f) == [t |-> "dict", v |-> f]
\* a numpy array of the values q
PyArray(q) == [t |-> "ndarray", v |-> q]
\* an object with a name attribute and a to_dict method returning d
PyObj(n, d) == [t |-> "object", name |-> n, dict |-> d]

\* bool(x)
Truthy(x) ==
    CASE x.t = "None" -> FALSE
      [] x.t = "str" -> x.v # ""
      [] x.t = "int" -> x.v # 0
      [] x.t = "list" -> x.v # <<>>
      [] x.t = "dict" -> DOMAIN x.v # {}
      [] OTHER -> TRUE

\* os.getcwd()
cwd == "cwd"

\* Experiment._abspath(*paths)[1], for a relative path
_abspath(path, p) == path \o "/" \o p

\* The values fecsep.utils.read_time_config and read_region_config hand
\* back to the constructor: dictionaries of the time and region settings.
time_configs ==
    {PyDict([start_date |-> PyStr("2020-01-01"),
             end_date |-> PyStr("2021-01-01"),
             exp_class |-> PyStr("ti"),
             timewindows |-> PyList(<<PyList(<<PyStr("2020-01-01"),
                                               PyStr("2021-01-01")>>)>>)])}

region_configs ==
    {PyDict([region |-> PyObj("california_relm_region",
                              PyDict([name |-> PyStr("california_relm_region")])),
             mag_min |-> PyInt(1),
             depth_min |-> PyInt(d),
             magnitudes |-> PyArray(<<PyInt(1), PyInt(2)>>),
             depths |-> PyArray(<<PyInt(d), PyInt(70)>>)]) : d \in {0, 2}}

\* The arguments of Experiment(...).  The catalog is a string: either the
\* name of a file under the path or the name of a catalog function.
ExperimentArgs ==
    [name : {PyNone, PyStr("exp")},
     path : {PyNone, PyStr("dir")},
     time_config : time_configs,
     region_config : region_configs,
     catalog : {PyStr("cat.json"), PyStr("query_comcat")},
     model_config : {PyNone, PyStr("models.yml")},
     test_config : {PyNone, PyStr("tests.yml")},
     postproc_config : {PyNone, PyDict([plot_forecasts |-> PyInt(1)])},
     default_test_kwargs : {PyNone, PyDict([seed |-> PyInt(1)])}]

\* os.path.isfile of the catalog argument under the experiment's path
isfile(cat) == cat = PyStr("cat.json")

\* Experiment.__init__: the instance's __dict__
Experiment(a) ==
    LET path == IF Truthy(a.path) THEN a.path.v ELSE cwd
    IN  [name |-> IF Truthy(a.name) THEN a.name ELSE PyStr("floatingExp"),
         path |-> PyStr(path),
         time_config |-> a.time_config,
         region_config |-> a.region_config,
         _catalog |-> IF isfile(a.catalog)
                      THEN PyStr(_abspath(path, a.catalog.v))
                      ELSE PyObj(a.catalog.v, PyNone),
         _catpath |-> IF isfile(a.catalog)
                      THEN PyStr(_abspath(path, a.catalog.v))
                      ELSE PyStr(_abspath(path, "catalog.json")),
         model_config |-> a.model_config,
         test_config |-> a.test_config,
         postproc_config |-> IF Truthy(a.postproc_config)
                             THEN a.postproc_config ELSE PyDict(<<>>),
         default_test_kwargs |-> a.default_test_kwargs,
         models |-> PyList(<<>>),
         tests |-> PyList(<<>>),
         tasks |-> PyList(<<>>),
         run_results |-> PyDict(<<>>),
         run_folder |-> PyStr(""),
         _paths |-> PyDict(<<>>),
         _exists |-> PyDict(<<>>)]

\* the default of to_dict's exclude argument
exclude == {"magnitudes", "depths", "timewindows", "reg"}

_get_value(x, extended) ==
    IF x.t = "object" /\ extended /\ x.dict # PyNone THEN x.dict
    ELSE IF x.t = "object" THEN PyStr(x.name)
    ELSE IF x.t = "ndarray" THEN PyList(x.v)
    ELSE x

RECURSIVE iter_attr(_, _)
iter_attr(val, extended) ==
    IF val.t = "dict"
    THEN PyDict([item \in {i \in DOMAIN val.v :
                              \/ i \notin exclude /\ Truthy(val.v[i])
                              \/ extended}
                 |-> iter_attr(val.v[item], extended)])
    ELSE IF val.t = "list"
    THEN PyList([i \in DOMAIN val.v |-> iter_attr(val.v[i], extended)])
    ELSE _get_value(val, extended)

\* i.startswith('_')
Private(i) == SubSeq(i, 1, 1) = "_"

dictwalk ==
    [i \in {k \in DOMAIN exp_dict : ~Private(k)} \cup {"catalog"} |->
        IF i = "catalog" THEN exp_dict["_catpath"] ELSE exp_dict[i]]

to_dict(extended) ==
    /\ exp_dict # <<>>
    /\ to_dict_out' = [extended |-> extended,
                       dict |-> iter_attr(PyDict(dictwalk), extended)]
    /\ UNCHANGED <<exp_args, exp_dict>>
    /\ UNCHANGED schedVars
    /\ UNCHANGED gefeVars
    /\ UNCHANGED regVars
    /\ UNCHANGED lateVars

InitDict ==
    /\ SchedIdle
    /\ GefeIdle
    /\ RegIdle
    /\ exp_args \in ExperimentArgs
    /\ exp_dict = Experiment(exp_args)
    /\ LateIdle
    /\ to_dict_out = <<>>

NextDict == \E extended \in BOOLEAN : to_dict(extended)

SpecDict == InitDict /\ [][NextDict]_vars

\* the attributes the dictionary is to have an entry for
ConfigAttributes ==
    {"name", "path", "time_config", "region_config", "catalog",
     "model_config", "test_config", "postproc_config",
     "default_test_kwargs", "models", "tests", "run_results", "run_folder"}

\* C18: the dictionary to_dict returns has an entry for every
\* configuration and state attribute of the experiment, also for those
\* whose value is None or empty, and the entry 'name' of an experiment
\* built without a name is None.
C18_ToDictEveryAttribute ==
    to_dict_out # <<>> =>
        /\ ConfigAttributes \subseteq DOMAIN to_dict_out.dict.v
        /\ ~Truthy(exp_args.name) => to_dict_out.dict.v["name"] = PyNone

\* ---------------------------------------------------------------------
\* The layout of the artifacts of a window.
\* ---------------------------------------------------------------------

\* the path segments the layout gives each artifact, below the run folder
LayoutCatalog(win) == <<win, "catalog", "catalog.json">>
LayoutResult(win, test, model) ==
    <<win, "evaluations", test \o "_" \o model \o ".json">>
LayoutTestFigure(win, test) == <<win, "figures", test>>
LayoutForecastFigure(win, model) == <<win, "figures", "forecast_" \o model>>

\* the keys build_tree itself writes into the figures of a window
OwnFigureKeys == {"catalog", "magnitude_time", "forecasts"}

\* C19: the paths tree building computes for a window follow the layout:
\* the test catalog at <window>/catalog/catalog.json, each result at
\* <window>/evaluations/{test}_{model}.json, each test figure at
\* <window>/figures/{test} and each forecast figure at
\* <window>/figures/forecast_{model}; this for the target paths of
\* prepare_paths and for the mappings of the registry's build_tree.
C19_ArtifactLayout ==
    /\ \A win \in DOMAIN _paths :
        /\ _paths[win].catalog = LayoutCatalog(win)
        /\ \A test \in DOMAIN _paths[win].evaluations :
            \A model \in DOMAIN _paths[win].evaluations[test] :
                _paths[win].evaluations[test][model] =
                    LayoutResult(win, test, model)
        /\ \A test \in DOMAIN _paths[win].figures :
            _paths[win].figures[test] = LayoutTestFigure(win, test)
        /\ \A model \in DOMAIN _paths[win].models.figures :
            _paths[win].models.figures[model] =
                LayoutForecastFigure(win, model)
    /\ built # <<>> =>
        \A win \in BuiltWindows :
            /\ test_catalogs[win] = join(LayoutCatalog(win))
            /\ \A test \in BuiltTests : \A model \in BuiltModels :
                results[win][test][model] =
                    join(LayoutResult(win, test, model))
            /\ \A test \in BuiltTests \ OwnFigureKeys :
                figures[win][test] = join(LayoutTestFigure(win, test))
            /\ \A model \in BuiltModels :
                figures[win]["forecasts"][model] =
                    join(LayoutForecastFigure(win, model))

\* ---------------------------------------------------------------------
\* The block layout of the task list.
\* ---------------------------------------------------------------------

CatalogIds == {n \in TaskIds : tasks[n].method = "prepare_subcatalog"}
ForecastIds == {n \in TaskIds : tasks[n].method = "create_forecast"}
DiscreteComparativeIds ==
    {n \in ComputeIds : IsDiscreteComparative(TestOf(n))}

\* the tasks of the Sequential and of the Batch tests
SequentialBatchIds ==
    {n \in ComputeIds :
        IsSequential(TestOf(n)) \/ IsDiscreteBatch(TestOf(n))}

\* the tasks of the windows
WindowLoopIds == TaskIds \ SequentialBatchIds

\* the place of the prepare_subcatalog task of window i
CatalogOf(i) == CHOOSE c \in CatalogIds : tasks[c].tstring = windows[i]

\* C20: the task list has the block layout: window after window in
\* timewindows order, each window beginning with its prepare_subcatalog
\* task; then model after model in model-list order the create_forecast
\* task, directly followed by the model's Discrete-Absolute tasks; then,
\* behind the last model and before the next window's catalog task, the
\* window's Discrete-Comparative tasks; and every Sequential and Batch
\* task behind all tasks of all windows.
C20_BlockLayout ==
    TasksBuilt =>
        /\ Cardinality(CatalogIds) = Len(windows)
        /\ \A i \in 1..Len(windows) :
            \E c \in CatalogIds : tasks[c].tstring = windows[i]
        /\ \A i \in 1..(Len(windows) - 1) : CatalogOf(i) < CatalogOf(i + 1)
        /\ \A n \in WindowLoopIds :
            /\ CatalogOf(WindowOf(n)) <= n
            /\ WindowOf(n) < Len(windows) => n < CatalogOf(WindowOf(n) + 1)
        /\ \A i \in 1..Len(windows), j \in 1..Len(models) :
            Cardinality({n \in ForecastIds :
                WindowOf(n) = i /\ tasks[n].instance = j}) = 1
        /\ \A a, b \in ForecastIds :
            (WindowOf(a) = WindowOf(b) /\ a < b) =>
                tasks[a].instance < tasks[b].instance
        /\ \A n \in DiscreteAbsoluteIds :
            \/ /\ (n - 1) \in ForecastIds
               /\ tasks[n - 1].instance = tasks[n].model
               /\ tasks[n - 1].tstring = tasks[n].timewindow[1]
            \/ /\ (n - 1) \in DiscreteAbsoluteIds
               /\ tasks[n - 1].model = tasks[n].model
               /\ tasks[n - 1].timewindow = tasks[n].timewindow
        /\ \A n \in DiscreteComparativeIds :
            \A m \in ForecastIds \cup DiscreteAbsoluteIds :
                WindowOf(m) = WindowOf(n) => m < n
        /\ \A n \in SequentialBatchIds : \A m \in WindowLoopIds : m < n

\* two windows of two models each, with a Discrete-Absolute and a
\* Discrete-Comparative test
C20_Witness ==
    /\ TasksBuilt
    /\ Len(timewindows) = 2
    /\ Len(models) = 2
    /\ DiscreteAbsoluteIds # {}
    /\ DiscreteComparativeIds # {}

\* ---------------------------------------------------------------------
\* The tasks of the Discrete-Batch tests.
\* ---------------------------------------------------------------------

\* the tasks built for test k
TasksOfTest(k) == {n \in ComputeIds : tasks[n].instance = k}

LastWindow == windows[Len(windows)]

\* C21: a Discrete-Batch test has exactly one task per model; each is
\* bound to the catalog and the result path of the last window only and
\* has the whole model list as ref_model.
C21_BatchOncePerModel ==
    TasksBuilt =>
        \A k \in 1..Len(tests) : IsDiscreteBatch(tests[k]) =>
            /\ \A j \in 1..Len(models) :
                Cardinality({n \in TasksOfTest(k) : tasks[n].model = j}) = 1
            /\ Cardinality(TasksOfTest(k)) = Len(models)
            /\ \A n \in TasksOfTest(k) :
                /\ tasks[n].timewindow = <<LastWindow>>
                /\ ~tasks[n].listed
                /\ tasks[n].catalog = <<CatalogPath(LastWindow)>>
                /\ tasks[n].path =
                      ResultPath(LastWindow, tests[k].name,
                                 models[tasks[n].model])
                /\ "ref_model" \in tasks[n].kwargs
                /\ tasks[n].ref_model = [m \in 1..Len(models) |-> m]

\* a Discrete-Batch test of two models over two windows
C21_Witness ==
    /\ TasksBuilt
    /\ Len(timewindows) = 2
    /\ Len(models) = 2
    /\ \E k \in 1..Len(tests) :
        /\ IsDiscreteBatch(tests[k])
        /\ Cardinality(TasksOfTest(k)) = 2

\* ---------------------------------------------------------------------
\* run() called again on the same Experiment.
\* ---------------------------------------------------------------------

\* how many calls of run() are followed
MaxReruns == 2

NextRuns ==
    \/ prepare_paths
    \/ prepare_tasks
    \/ run_call_within(MaxReruns)
    \/ task_start
    \/ task_return
    \/ task_raise
    \/ run_return

\* an experiment of one window and at most one test
InitRuns ==
    /\ Init
    /\ Len(timewindows) = 1
    /\ Len(tests) <= 1

SpecRuns == InitRuns /\ [][NextRuns]_vars

\* C22: run() of a Task is called at most once, whatever the sequence of
\* prepare_tasks and run calls: a run() that follows another without a new
\* prepare_tasks finds none of the executed tasks in the list.
C22_TaskRunsOnce ==
    \A n \in DOMAIN task_runs : task_runs[n] <= 1

(***************************************************************************)
(* The registry and the files of the run folder: file_exists and           *)
(* result_exist, with files created and deleted from outside.  `disk'      *)
(* holds the absolute paths of the files present.                          *)
(***************************************************************************)
\* faulty variant of exists: the folder of the file is looked at
exists_folder(path) == SubSeq(path, 1, Len(path) - 1) \in dirs

\* os.path.exists
exists(path) == path \in DOMAIN disk

\* BaseFileRegistry.file_exists(*args): exists(self.get(*args))
file_exists(method, args) ==
    LET file_abspath == Walk(reg_dict, args)
    IN  [method |-> method, args |-> args, outcome |-> file_abspath,
         exists |-> IF file_abspath.error = None
                    THEN exists(file_abspath.path) ELSE FALSE]

\* ExperimentRegistry.result_exist(timewindow_str, test_name, model_name)
result_exist(timewindow_str, test_name, model_name) ==
    /\ lookup' = file_exists("result_exist",
                             <<String("results"), String(timewindow_str),
                               String(test_name), String(model_name)>>)
    /\ UNCHANGED <<results, test_catalogs, figures, built>>
    /\ UNCHANGED schedVars
    /\ UNCHANGED gefeVars
    /\ UNCHANGED dictVars
    /\ UNCHANGED lateVars

\* the files someone may put into the run folder or take away
ExternalFiles ==
    {abs(<<run_dir, timewindow2str(tw), "evaluations",
           ResultFileName("T", model)>>) :
        tw \in {<<0, 1>>, <<1, 2>>}, model \in ModelNames}

\* a file is created from outside (by hand, by another run)
external_create(path) ==
    /\ path \notin DOMAIN disk
    /\ disk' = [p \in DOMAIN disk \cup {path} |-> "external"]
    /\ lookup' = <<>>
    /\ UNCHANGED <<timewindows, models, tests, _paths, _exists, dirs,
                   forecasts, tasks, pc, cursor, executing, executed, raised,
                   runs, task_runs>>
    /\ UNCHANGED <<results, test_catalogs, figures, built>>
    /\ UNCHANGED gefeVars
    /\ UNCHANGED dictVars
    /\ UNCHANGED lateVars

\* a file is deleted from outside
external_delete(path) ==
    /\ path \in DOMAIN disk
    /\ disk' = [p \in DOMAIN disk \ {path} |-> "external"]
    /\ lookup' = <<>>
    /\ UNCHANGED <<timewindows, models, tests, _paths, _exists, dirs,
                   forecasts, tasks, pc, cursor, executing, executed, raised,
                   runs, task_runs>>
    /\ UNCHANGED <<results, test_catalogs, figures, built>>
    /\ UNCHANGED gefeVars
    /\ UNCHANGED dictVars
    /\ UNCHANGED lateVars

NextLive ==
    \/ \E a \in BuildArgs : build_tree(a[1], a[2], a[3])
    \/ \E path \in ExternalFiles : external_create(path)
    \/ \E path \in ExternalFiles : external_delete(path)
    \/ \E w \in {"0_1", "1_2"}, t \in RegTestNames, m \in ModelNames :
          result_exist(w, t, m)

SpecLive == InitReg /\ [][NextLive]_vars

\* the last call was result_exist
AskedResult == lookup # <<>> /\ lookup.method = "result_exist"

\* what get_result gives for the keys result_exist was asked for
ResultOfAsked == Walk(results, Tail(lookup.args))

\* C23: result_exist(w, t, m) tells whether a file is present now at the
\* path get_result(w, t, m) resolves to, whatever files were created and
\* deleted since build_tree; for keys that were not built both raise.
C23_ResultExistLive ==
    AskedResult =>
        /\ lookup.outcome = ResultOfAsked
        /\ ResultOfAsked.error = None =>
              (lookup.exists <=> ResultOfAsked.path \in DOMAIN disk)

\* a result file created after build_tree is reported; one that was there
\* and has been deleted is not
C23_Witness ==
    /\ AskedResult
    /\ lookup.outcome.error = None
    /\ lookup.exists
    /\ \E p \in ExternalFiles \ DOMAIN disk : p[3] \in BuiltWindows

(***************************************************************************)
(* Experiment.prepare_subcatalog: the events of a window.  Origin times    *)
(* are epoch milliseconds; a date d of a window is d * 1000 of them.       *)
(***************************************************************************)
\* the origin times an event of the catalog may have: on the bounds of the
\* windows and between them
OriginTimes == {0, 500, 1000, 1500, 2000}

\* fecsep.utils.str2timewindow: the window of a string
str2timewindow(tstring) ==
    CHOOSE tw \in Dates \X Dates : timewindow2str(tw) = tstring

\* datetime.timestamp() * 1000
timestamp_ms(date) == date * 1000

\* faulty variant of window_filter: the end of the window is included
window_filter_closed(events, start, end) ==
    {e \in events : e <= timestamp_ms(end) /\ e >= timestamp_ms(start)}

\* catalog.filter(['origin_time < end', 'origin_time >= start'])
window_filter(events, start, end) ==
    {e \in events : e < timestamp_ms(end) /\ e >= timestamp_ms(start)}

\* prepare_subcatalog(tstring), looked at for the events it writes;
\* KeyError when prepare_paths has not set the path
prepare_subcatalog_events(tstring) ==
    /\ tstring \in DOMAIN _paths
    /\ LET tw == str2timewindow(tstring)
           subcat == window_filter(catalog, tw[1], tw[2])
           filename == _paths[tstring].catalog
       IN  subcatalogs' =
               [p \in DOMAIN subcatalogs \cup {filename} |->
                   IF p = filename THEN subcat ELSE subcatalogs[p]]
    /\ UNCHANGED <<catalog, cli, plots, g_cat>>
    /\ UNCHANGED schedVars
    /\ UNCHANGED gefeVars
    /\ UNCHANGED regVars
    /\ UNCHANGED dictVars

\* an experiment without models and tests, and its catalog
InitSubcat ==
    /\ timewindows \in TimeConfigs
    /\ models = <<>>
    /\ tests = <<>>
    /\ _paths = <<>>
    /\ _exists = <<>>
    /\ dirs = {}
    /\ disk = <<>>
    /\ forecasts = {}
    /\ tasks = <<>>
    /\ pc = "idle"
    /\ cursor = 1
    /\ executing = {}
    /\ executed = <<>>
    /\ raised = {}
    /\ runs = 0
    /\ task_runs = <<>>
    /\ GefeIdle
    /\ RegIdle
    /\ DictIdle
    /\ catalog \in SUBSET OriginTimes
    /\ subcatalogs = <<>>
    /\ CliIdle
    /\ PlotIdle
    /\ CatIdle

NextSubcat ==
    \/ prepare_paths
    \/ \E i \in 1..Len(timewindows) : prepare_subcatalog_events(windows[i])

SpecSubcat == InitSubcat /\ [][NextSubcat]_vars

\* C24: the catalog file of a window (start, end) holds exactly the events
\* of the catalog with start <= origin_time < end: an event at start is in
\* it, an event at end is not, so an event on the bound two windows share
\* is in the later window's file only.
C24_SubcatalogHalfOpen ==
    \A i \in 1..Len(timewindows) :
        CatalogPath(windows[i]) \in DOMAIN subcatalogs =>
            LET written == subcatalogs[CatalogPath(windows[i])]
                start == timewindows[i][1] * 1000
                end == timewindows[i][2] * 1000
            IN  /\ written = {e \in catalog : start <= e /\ e < end}
                /\ start \in catalog => start \in written
                /\ end \notin written

\* both windows written, with an event on the bound they share
C24_Witness ==
    /\ Len(timewindows) = 2
    /\ 1000 \in catalog
    /\ {CatalogPath("0_1"), CatalogPath("1_2")} \subseteq DOMAIN subcatalogs
    /\ 1000 \notin subcatalogs[CatalogPath("0_1")]
    /\ 1000 \in subcatalogs[CatalogPath("1_2")]

(***************************************************************************)
(* The keys of a lookup: get_result called with every kind of argument.    *)
(***************************************************************************)
ParseWindowArgs == {List(<<0, 1>>), String("0_1"), Other}
ParseTestArgs ==
    {Named("T"), Function("T"), String("T"), Object("T", "forecasts"),
     Object("forecasts", "T"), Other}
ParseModelArgs == {Named("B"), Function("B"), Object("B", "A_B"), Other}

NextParse ==
    \/ \E a \in BuildArgs : build_tree(a[1], a[2], a[3])
    \/ \E w \in ParseWindowArgs, t \in ParseTestArgs, m \in ParseModelArgs :
          get_result(<<w, t, m>>)

SpecParse == InitReg /\ [][NextParse]_vars

\* the key the dispatch rule gives an argument
RuleKey(arg) ==
    IF arg.kind = "list"
    THEN ToString(arg.items[1]) \o "_" \o ToString(arg.items[2])
    ELSE IF arg.kind = "str" THEN arg.val
    ELSE IF arg.name # None THEN arg.name
    ELSE arg.__name__

\* the rule gives the argument no key
RuleNoKey(arg) ==
    arg.kind = "object" /\ arg.name = None /\ arg.__name__ = None

\* C25: every key segment of a lookup is normalized by one rule: a time
\* window becomes its string, a string stays, an object with a name gives
\* the name, otherwise one with a function name gives that, and anything
\* else makes the lookup raise: the lookup has the outcome of the lookup
\* of the rule's keys given as strings.
C25_ParseArgDispatch ==
    (Looking /\ lookup.method = "get_result") =>
        LET segs == 1..Len(lookup.args)
        IN  IF \E i \in segs : RuleNoKey(lookup.args[i])
            THEN lookup.outcome.error # None
            ELSE lookup.outcome =
                    Walk(results,
                         [i \in segs |-> String(RuleKey(lookup.args[i]))])

\* a lookup by a time window, a test with a name and a function name, and a
\* model function resolves to the result of (0_1, T, B)
C25_Witness ==
    /\ Looking
    /\ lookup.method = "get_result"
    /\ lookup.args =
          <<List(<<0, 1>>), Object("T", "forecasts"), Function("B")>>
    /\ lookup.outcome =
          Returns(<<workdir, run_dir, "0_1", "evaluations", "T_B.json">>)

(***************************************************************************)
(* The commands of floatcsep/cmd/main.py.  `cli' holds the function that   *)
(* was entered, the value of show it got, the methods it has called so far *)
(* (an entry is <<experiment, method>>) and where it stands.  A method     *)
(* that raises ends the function: main.py catches nothing.                 *)
(***************************************************************************)
\* the values of show: a bool given by a caller, or the string argparse
\* hands over for -s/--show (type=str), True by default
ShowBool(b) == [kind |-> "bool", b |-> b, s |-> ""]
ShowStr(s) == [kind |-> "str", b |-> FALSE, s |-> s]
ShowValues ==
    {ShowBool(TRUE), ShowBool(FALSE), ShowStr("False"), ShowStr("")}

\* `if show:'
IfShow(show) == IF show.kind = "bool" THEN show.b ELSE show.s # ""

PlotCalls(exp) ==
    <<<<exp, "plot_results">>, <<exp, "plot_forecasts">>,
      <<exp, "generate_report">>>>

\* faulty variant of run_body: make_repr is called under `if show' too
run_body_reprinshow(show) ==
    <<<<"exp", "from_yml">>, <<"exp", "stage_models">>,
      <<"exp", "set_tasks">>, <<"exp", "run">>>>
    \o (IF IfShow(show)
        THEN PlotCalls("exp") \o <<<<"exp", "make_repr">>>> ELSE <<>>)

\* run(config, show)
run_body(show) ==
    <<<<"exp", "from_yml">>, <<"exp", "stage_models">>,
      <<"exp", "set_tasks">>, <<"exp", "run">>>>
    \o (IF IfShow(show) THEN PlotCalls("exp") ELSE <<>>)
    \o <<<<"exp", "make_repr">>>>

\* stage(config, **_)
stage_body == <<<<"exp", "from_yml">>, <<"exp", "stage_models">>>>

\* plot(config, **_)
plot_body ==
    <<<<"exp", "from_yml">>, <<"exp", "stage_models">>,
      <<"exp", "set_tasks">>>> \o PlotCalls("exp")

\* reproduce(config, **_)
reproduce_body ==
    <<<<"reproduced_exp", "from_yml">>, <<"reproduced_exp", "stage_models">>,
      <<"reproduced_exp", "set_tasks">>, <<"reproduced_exp", "run">>,
      <<"original_exp", "from_yml">>, <<"original_exp", "stage_models">>,
      <<"original_exp", "set_tasks">>>>

\* the calls of the function entered, in the order of its statements
Body ==
    IF cli.func = "run" THEN run_body(cli.show)
    ELSE IF cli.func = "stage" THEN stage_body
    ELSE IF cli.func = "plot" THEN plot_body
    ELSE reproduce_body

\* floatcsep(): func(**vars(args))
floatcsep(func, show) ==
    /\ cli = <<>>
    /\ cli' = [func |-> func, show |-> show, calls |-> <<>>,
               status |-> "running"]
    /\ UNCHANGED <<schedVars, gefeVars, regVars, dictVars, subcatVars,
                   plots, g_cat>>

\* the next statement of the function: the method is called and returns
call_returns ==
    /\ cli # <<>>
    /\ cli.status = "running"
    /\ Len(cli.calls) < Len(Body)
    /\ cli' = [cli EXCEPT !.calls = Append(@, Body[Len(cli.calls) + 1])]
    /\ UNCHANGED <<schedVars, gefeVars, regVars, dictVars, subcatVars,
                   plots, g_cat>>

\* the next statement of the function: the method is called and raises
call_raises ==
    /\ cli # <<>>
    /\ cli.status = "running"
    /\ Len(cli.calls) < Len(Body)
    /\ cli' = [cli EXCEPT !.calls = Append(@, Body[Len(cli.calls) + 1]),
                          !.status = "raised"]
    /\ UNCHANGED <<schedVars, gefeVars, regVars, dictVars, subcatVars,
                   plots, g_cat>>

\* the function returns
func_return ==
    /\ cli # <<>>
    /\ cli.status = "running"
    /\ Len(cli.calls) = Len(Body)
    /\ cli' = [cli EXCEPT !.status = "returned"]
    /\ UNCHANGED <<schedVars, gefeVars, regVars, dictVars, subcatVars,
                   plots, g_cat>>

NextCli ==
    \/ \E func \in {"run", "stage", "plot", "reproduce"},
          show \in ShowValues : floatcsep(func, show)
    \/ call_returns
    \/ call_raises
    \/ func_return

SpecCli == InitReg /\ [][NextCli]_vars

\* the methods called so far, and where a method was called
Called == {cli.calls[i][2] : i \in 1..Len(cli.calls)}
PlaceOf(method) == CHOOSE i \in 1..Len(cli.calls) : cli.calls[i][2] = method
PlotSteps == {"plot_results", "plot_forecasts", "generate_report"}

\* the method at place i has returned: a later call was made, or the
\* function went on to its end
ReturnedAt(i) == i < Len(cli.calls) \/ cli.status # "raised"

\* the place of each step in the order of the run command
StepRank(method) ==
    CASE method = "from_yml" -> 0
      [] method = "stage_models" -> 1
      [] method = "set_tasks" -> 2
      [] method = "run" -> 3
      [] method = "plot_results" -> 4
      [] method = "plot_forecasts" -> 5
      [] method = "generate_report" -> 6
      [] method = "make_repr" -> 7

FlagTestNames == {"N", "MN"}

FlagTestConfigs ==
    {ts \in SeqsUpTo({[t EXCEPT !.name = n] :
                         t \in {e \in Evaluations : WellFormedTest(e)},
                         n \in FlagTestNames}, MaxTests) :
        \A a, b \in 1..Len(ts) : a # b => ts[a].name # ts[b].name}

InitFlags ==
    /\ timewindows = timewindows_ti(1)
    /\ models \in {ms \in ModelConfigs : Injective(ms)}
    /\ tests \in FlagTestConfigs
    /\ _paths = <<>>
    /\ _exists = <<>>
    /\ dirs = {}
    /\ disk = <<>>
    /\ forecasts = {}
    /\ tasks = <<>>
    /\ pc = "idle"
    /\ cursor = 1
    /\ executing = {}
    /\ executed = <<>>
    /\ raised = {}
    /\ runs = 0
    /\ task_runs = <<>>
    /\ GefeIdle
    /\ RegIdle
    /\ DictIdle
    /\ LateIdle

SpecFlags == InitFlags /\ [][Next]_vars

\* C27: the flag prepare_paths computes for (window, test, model) is true
\* exactly when the file at the result path of that same (window, test,
\* model) is in the evaluations folder of the window.
C27_FlagIffOwnFile ==
    [][prepare_paths =>
        \A win \in WindowSet, test \in TestNameSet, model \in ModelNameSet :
            _exists'[win].evaluations[test][model]
                <=> ResultPath(win, test, model) \in DOMAIN disk]_vars

\* the flags are read while the folder holds a result
C27_Witness ==
    /\ _exists # <<>>
    /\ \E win \in WindowSet, test \in TestNameSet, model \in ModelNameSet :
        /\ _exists[win].evaluations[test][model]
        /\ ResultPath(win, test, model) \in DOMAIN disk

(***************************************************************************)
(* The figure paths postprocess.py asks the registry for, after the        *)
(* registry was built for the windows and models of the experiment.        *)
(***************************************************************************)
\* plot_forecasts: get_figure(window, "forecasts", model.name), window a
\* string of timewindow2str(experiment.timewindows)
PlotForecastsArgs ==
    IF built = <<>> THEN {}
    ELSE {<<String(timewindow2str(built[1][i])), String("forecasts"),
            String(built[2][j])>> :
            i \in 1..Len(built[1]), j \in 1..Len(built[2])}

\* plot_catalogs: get_figure("main_catalog_map"),
\* get_figure("main_catalog_time"), and for tw in experiment.timewindows
\* get_figure(tw, "catalog_map"), get_figure(tw, "catalog_time")
PlotCatalogsArgs ==
    IF built = <<>> THEN {}
    ELSE {<<String("main_catalog_map")>>, <<String("main_catalog_time")>>}
         \cup {<<List(built[1][i]), String(key)>> :
                 i \in 1..Len(built[1]), key \in {"catalog_map", "catalog_time"}}

NextPlot ==
    \/ \E a \in BuildArgs : build_tree(a[1], a[2], a[3])
    \/ \E args \in PlotForecastsArgs : get_figure(args)
    \/ \E args \in PlotCatalogsArgs : get_figure(args)

SpecPlot == InitReg /\ [][NextPlot]_vars

\* C28: every figure key postprocess.py asks for is a key of the figures
\* tree of build_tree: the lookup gives a path and raises nothing.
C28_PlotKeysPresent ==
    (Looking /\ lookup.method = "get_figure") => lookup.outcome.error = None

(***************************************************************************)
(* plot_catalogs of postprocess.py, on an experiment whose registry was    *)
(* built for its time windows.  What the catalogs hold is given: `main'    *)
(* is the number of events of the catalog of the whole experiment,         *)
(* `events[i]' that of the test catalog of window i.  A figure that was    *)
(* saved is the path get_figure gave for it.                               *)
(***************************************************************************)
\* experiment.postprocess.get("plot_catalog", {}): True, False/None or a
\* dict, with or without all_time_windows
ConfigBool(b) == [kind |-> "bool", b |-> b, all_time_windows |-> FALSE]
ConfigDict(atw) == [kind |-> "dict", b |-> FALSE, all_time_windows |-> atw]
PlotCatalogConfigs ==
    {ConfigBool(TRUE), ConfigBool(FALSE), ConfigDict(TRUE), ConfigDict(FALSE)}

\* parse_plot_config: whether a dict comes back ({} for True)
parse_plot_config(plot_config) ==
    IF plot_config.kind = "bool"
    THEN [isdict |-> plot_config.b, all_time_windows |-> FALSE]
    ELSE [isdict |-> TRUE, all_time_windows |-> plot_config.all_time_windows]

\* the event numbers of the catalogs: the main catalog holds the events of
\* every window
CatalogEvents(n) ==
    {ce \in [main : 0..1, events : [1..n -> 0..1]] :
        \A i \in 1..n : ce.events[i] <= ce.main}

\* what plot_catalogs has done so far
Plotted(saved, shown, error) ==
    [saved |-> saved, shown |-> shown, error |-> error]

\* savefig at the path of get_figure(args): KeyError and the like leave
\* the function
SaveFigure(done, args) ==
    IF done.error # None THEN done
    ELSE IF Walk(figures, args).error # None
         THEN [done EXCEPT !.error = Walk(figures, args).error]
         ELSE [done EXCEPT !.saved = @ \cup {Walk(figures, args).path}]

\* `if test_catalog.get_number_of_events() != 0: continue'
SkipWindow(n) == n # 0

\* for tw in experiment.timewindows, from window i on
RECURSIVE PlotWindows(_, _, _, _)
PlotWindows(tws, events, i, done) ==
    IF i > Len(tws) \/ done.error # None THEN done
    ELSE IF SkipWindow(events[i]) THEN PlotWindows(tws, events, i + 1, done)
    ELSE PlotWindows(tws, events, i + 1,
            SaveFigure(
                SaveFigure([done EXCEPT !.shown = @ \cup {i}],
                           <<List(tws[i]), String("catalog_map")>>),
                <<List(tws[i]), String("catalog_time")>>))

PlotMain ==
    SaveFigure(SaveFigure(Plotted({}, {}, None),
                          <<String("main_catalog_map")>>),
               <<String("main_catalog_time")>>)

\* plot_catalogs(experiment)
plot_catalogs(plot_config, ce) ==
    /\ built # <<>>
    /\ plots' =
        [config |-> plot_config,
         timewindows |-> built[1],
         main |-> ce.main,
         events |-> ce.events,
         done |->
            IF ~parse_plot_config(plot_config).isdict
            THEN Plotted({}, {}, None)
            ELSE IF ce.main = 0 THEN Plotted({}, {}, None)
            ELSE IF parse_plot_config(plot_config).all_time_windows
            THEN PlotWindows(built[1], ce.events, 1, PlotMain)
            ELSE PlotMain]
    /\ UNCHANGED <<schedVars, gefeVars, regVars, dictVars, subcatVars,
                   cli, g_cat>>

NextCatalogs ==
    \/ \E a \in BuildArgs : build_tree(a[1], a[2], a[3])
    \/ \E plot_config \in PlotCatalogConfigs :
        \E ce \in CatalogEvents(IF built = <<>> THEN 0 ELSE Len(built[1])) :
            plot_catalogs(plot_config, ce)

SpecCatalogs == InitReg /\ [][NextCatalogs]_vars

\* the figures of a window: the file stems build_tree gives them
WindowFigures(tw) ==
    {abs(<<run_dir>> \o join(<<timewindow2str(tw), "figures", stem>>).str) :
        stem \in {"catalog_map", "catalog_time"}}

\* C29: when plot_catalogs runs with all_time_windows set, the two figures
\* of every window whose test catalog has an event are saved, and only the
\* windows without events are passed over; with a main catalog of zero
\* events nothing is saved.
C29_WindowsWithEventsPlotted ==
    (plots # <<>> /\ plots.config = ConfigDict(TRUE)) =>
        /\ plots.main = 0 => plots.done.saved = {}
        /\ plots.main # 0 =>
            \A i \in 1..Len(plots.timewindows) :
                /\ plots.events[i] >= 1 =>
                    WindowFigures(plots.timewindows[i])
                        \subseteq plots.done.saved
                /\ i \notin plots.done.shown => plots.events[i] = 0

(***************************************************************************)
(* gefe Experiment.get_catalog / set_catalog.  A catalog is the set of the *)
(* latitudes of its events.  `g_cat' holds self.catalog (has_catalog:      *)
(* hasattr(self, 'catalog')), the catalog file of the run (has_file:       *)
(* os.path.exists), how often the file was loaded and the reader called,   *)
(* what each get_catalog call returned and the branch it took, and        *)
(* `given', the catalog set_catalog was called with before the first      *)
(* get_catalog (was_given: whether it was called).                        *)
(***************************************************************************)
Latitudes == {-90, 0, 90}
Catalogs == SUBSET Latitudes
MaxCatalogCalls == 3

\* catalog.filter(['latitude > -85.0', 'latitude < 85.0'])
filter_latitude(cat) == {lat \in cat : lat > -85 /\ lat < 85}

\* Experiment(...), get_run_struct(): no catalog attribute; the run folder
\* holds a catalog file or not
ExperimentCatalog(has_file, file) ==
    [has_catalog |-> FALSE, catalog |-> {}, has_file |-> has_file,
     file |-> file, loads |-> 0, reader_calls |-> 0, returned |-> <<>>,
     branch |-> <<>>, was_given |-> FALSE, given |-> {}]

\* set_catalog(catalog)
set_catalog(cat) ==
    /\ g_cat' = [g_cat EXCEPT !.has_catalog = TRUE, !.catalog = cat,
                              !.was_given = TRUE, !.given = cat]
    /\ UNCHANGED <<schedVars, gefeVars, regVars, dictVars, subcatVars,
                   cli, plots>>

\* faulty variant of get_catalog_of: the catalog of the reader is not kept
get_catalog_of_notkept(exp, download) ==
    IF exp.has_catalog
    THEN [exp EXCEPT !.returned = Append(@, exp.catalog),
                     !.branch = Append(@, "memory")]
    ELSE IF exp.has_file
    THEN [exp EXCEPT !.loads = @ + 1,
                     !.has_catalog = TRUE, !.catalog = exp.file,
                     !.returned = Append(@, exp.file),
                     !.branch = Append(@, "file")]
    ELSE [exp EXCEPT !.reader_calls = @ + 1,
                     !.returned = Append(@, filter_latitude(download)),
                     !.branch = Append(@, "reader")]

\* get_catalog(): `download' is what the reader would give
get_catalog_of(exp, download) ==
    IF exp.has_catalog
    THEN [exp EXCEPT !.returned = Append(@, exp.catalog),
                     !.branch = Append(@, "memory")]
    ELSE IF exp.has_file
    THEN [exp EXCEPT !.loads = @ + 1,
                     !.has_catalog = TRUE, !.catalog = exp.file,
                     !.returned = Append(@, exp.file),
                     !.branch = Append(@, "file")]
    ELSE [exp EXCEPT !.reader_calls = @ + 1,
                     !.has_catalog = TRUE,
                     !.catalog = filter_latitude(download),
                     !.returned = Append(@, filter_latitude(download)),
                     !.branch = Append(@, "reader")]

get_catalog(download) ==
    /\ Len(g_cat.returned) < MaxCatalogCalls
    /\ g_cat' = get_catalog_of(g_cat, download)
    /\ UNCHANGED <<schedVars, gefeVars, regVars, dictVars, subcatVars,
                   cli, plots>>

\* the experiment as the first get_catalog finds it: a catalog was set
\* with set_catalog or not, the run folder holds a catalog file or not
InitCatalog ==
    /\ g_cat \in {ExperimentCatalog(FALSE, {})}
                 \cup {ExperimentCatalog(TRUE, file) : file \in Catalogs}
    /\ SchedIdle
    /\ GefeIdle
    /\ RegIdle
    /\ DictIdle
    /\ SubcatIdle
    /\ CliIdle
    /\ PlotIdle

NextCatalog ==
    \/ \E cat \in Catalogs :
        Len(g_cat.returned) = 0 /\ ~g_cat.has_catalog /\ set_catalog(cat)
    \/ \E download \in Catalogs : get_catalog(download)

SpecCatalog == InitCatalog /\ [][NextCatalog]_vars

====
